---- MODULE Spec2Model ----
(***************************************************************************)
(* Model of the HomeKit adapter: the adapter's BLE operation queue         *)
(* (HomeKitAdapter.queueBLEOperation), the device operations that go       *)
(* through it (load, pair, unpair, poll read, property write) and          *)
(* HomeKitProperty.setValue.                                               *)
(*                                                                         *)
(* Numbers are fixed-point: a property value x is held as the integer      *)
(* x * Scale, so 2.3 is 230 and a step of 0.1 is 10.                       *)
(***************************************************************************)
EXTENDS Integers, Sequences, FiniteSets, TLC

(***************************************************************************)
(* Bounds of the model.                                                    *)
(***************************************************************************)
\* Number of operations handed to queueBLEOperation in one behaviour of the
\* queue specification.
MaxOps == 3

\* Number of operations the devices hand to queueBLEOperation in one
\* behaviour of the adapter specification.
MaxDeviceOps == 2

\* Number of operations in one behaviour of the adapter specification when
\* the last of them are the later writes of a colour (saturation, brightness).
MaxChainOps == 3

\* Requested values of the setValue specification are the multiples of 0.05
\* from -MaxReqIndex * 0.05 to MaxReqIndex * 0.05, and a few large ones.
MaxReqIndex == 48

\* Number of times getAccessories is called again for one operation after
\* a 'Disconnected' or 'Timeout'; the code keeps no count.
MaxRetries == 2

\* Number of HomeKitDevice objects constructed for the bridge.
MaxObjects == 2

\* Number of 'disconnect' events the client of the IP accessory emits in one
\* behaviour of the watch specification.
MaxDisconnects == 2

(***************************************************************************)
(* Fixed-point arithmetic.                                                 *)
(***************************************************************************)
Scale == 100

\* Math.round(n / d) for d > 0: floor(n/d + 1/2), ties towards +Infinity.
MathRound(n, d) == (2 * n + d) \div (2 * d)

Max2(a, b) == IF a >= b THEN a ELSE b

Min2(a, b) == IF a <= b THEN a ELSE b

Abs(a) == IF a >= 0 THEN a ELSE -a

(***************************************************************************)
(* Property descriptions, as addProperty hands them to HomeKitProperty.    *)
(* minimum, maximum and multipleOf are fixed-point; hasMin, hasMax and     *)
(* hasStep say whether the description has the key at all.                 *)
(***************************************************************************)
Descr(type, hasMin, minimum, hasMax, maximum, hasStep, multipleOf, readOnly, toHap, meta) ==
  [type |-> type, hasMin |-> hasMin, minimum |-> minimum,
   hasMax |-> hasMax, maximum |-> maximum,
   hasStep |-> hasStep, multipleOf |-> multipleOf,
   readOnly |-> readOnly, toHap |-> toHap, metaProperty |-> meta]

PropertyNames ==
  {"Brightness", "CoolingThreshold", "Hue", "Saturation", "ColorTemperature",
   "Voltage", "Level", "Color"}

PropertyDescription(p) ==
  CASE p = "Brightness" ->
         Descr("integer", TRUE, 0, TRUE, 100 * Scale, TRUE, Scale, FALSE, "none", FALSE)
    [] p = "CoolingThreshold" ->
         Descr("number", TRUE, 10 * Scale, TRUE, 35 * Scale, TRUE, Scale \div 10, FALSE, "none", FALSE)
    [] p = "Hue" ->
         Descr("number", TRUE, 0, TRUE, 360 * Scale, TRUE, Scale, FALSE, "none", FALSE)
    [] p = "Saturation" ->
         Descr("number", TRUE, 0, TRUE, 100 * Scale, TRUE, Scale, FALSE, "none", FALSE)
    [] p = "ColorTemperature" ->
         Descr("integer", TRUE, 50 * Scale, TRUE, 400 * Scale, FALSE, 0, FALSE, "mired", FALSE)
    [] p = "Voltage" ->
         Descr("number", FALSE, 0, FALSE, 0, TRUE, Scale \div 10, TRUE, "none", FALSE)
    [] p = "Level" ->
         Descr("number", TRUE, 0, TRUE, 10 * Scale, TRUE, Scale \div 2, FALSE, "none", FALSE)
    [] p = "Color" ->
         Descr("string", FALSE, 0, FALSE, 0, FALSE, 0, FALSE, "setColor", TRUE)

(***************************************************************************)
(* HomeKitProperty.setValue, the part that adjusts the requested value.    *)
(***************************************************************************)
\* if (this.hasOwnProperty('minimum')) value = Math.max(this.minimum, value);
\* if (this.hasOwnProperty('maximum')) value = Math.min(this.maximum, value);
Clamp(d, v) ==
  LET lo == IF d.hasMin THEN Max2(d.minimum, v) ELSE v
  IN  IF d.hasMax THEN Min2(d.maximum, lo) ELSE lo

\* value = Math.round(value / this.multipleOf) * this.multipleOf;
RoundToStepDown(d, v) ==
  IF d.hasStep THEN (v \div d.multipleOf) * d.multipleOf ELSE v

RoundToStep(d, v) ==
  IF d.hasStep THEN MathRound(v, d.multipleOf) * d.multipleOf ELSE v

\* if (this.type === 'integer') value = Math.round(value);
RoundToInteger(d, v) ==
  IF d.type = "integer" THEN MathRound(v, Scale) * Scale ELSE v

\* The color temperature property's toHap: (value) => Math.round(1e6 / value)
MiredToHap(v) == MathRound(1000000 * Scale, v) * Scale

\* if (this.toHap) value = this.toHap(value);
\* setColor returns its argument; the enum and boolean setters are not numeric.
ToHap(d, v) ==
  IF d.toHap = "mired" THEN MiredToHap(v) ELSE v

\* The value setValue hands to the transport, lines 236-254.
AdjustedValue(d, v) == ToHap(d, RoundToInteger(d, RoundToStep(d, Clamp(d, v))))

(***************************************************************************)
(* The world of the model: two BLE accessories sharing the adapter, and    *)
(* the properties of an IP accessory for the direct write path.            *)
(***************************************************************************)
Devices == {"ble1", "ble2"}

IPDevice == "ip1"

\* PIN that asks the accessory to display a PIN, and any other PIN.
SentinelPin == "000-00-000"

Pins == {SentinelPin, "123-45-678"}

\* The PINs of the setPin specification: both spellings this.pinPattern
\* admits, of the sentinel and of another PIN.
PinSpellings == Pins \cup {"00000000", "12345678"}

\* The PIN setPin hands to device.pair: a string that /^\d{8}$/ matches is
\* cut with substr into XXX-XX-XXX.
NormalisePinNever(pin) == pin

NormalisePin(pin) ==
  IF Len(pin) = 8 /\ \A i \in 1..8 : \E n \in 1..10 : SubSeq(pin, i, i) = SubSeq("0123456789", n, n)
  THEN SubSeq(pin, 1, 3) \o "-" \o SubSeq(pin, 4, 5) \o "-" \o SubSeq(pin, 6, 8)
  ELSE pin

\* A property is a pair <<device, name>>.  ble1 is a colour light with an
\* energy meter; ip1 carries every description of the catalogue.
BLEProperties == {<<"ble1", n>> : n \in {"Brightness", "Hue", "Saturation", "Voltage", "Color"}}

IPProperties == {<<IPDevice, n>> : n \in PropertyNames \ {"Color"}}

Properties == BLEProperties \cup IPProperties

Stored == {p \in Properties : ~PropertyDescription(p[2]).metaProperty}

\* this.device.connectionType
ConnectionType(p) == IF p[1] = IPDevice THEN "ip" ELSE "ble"

\* Values requested by the gateway in the adapter specification.
MainRequests == {150 * Scale}

\* Color.rgbToHsv of the colours the gateway sets, fixed-point.
ColorInputs == {[h |-> 21050, s |-> 5000, v |-> 8000]}

\* Values requested in the setValue specification.
ReqValues ==
  {5 * i : i \in (-MaxReqIndex)..MaxReqIndex}
    \cup {1004, 1234, 1235, 3555, 21050, 10 * Scale, 35 * Scale, 150 * Scale, 3000 * Scale}

\* Results of a call on a GATT or HTTP client.
ClientResults == {"ok", "Timeout", "Error"}

\* The results told apart for a call: only getAccessories looks at the error.
ResultsOf(method) ==
  IF method = "getAccessories" THEN ClientResults ELSE ClientResults \ {"Timeout"}

\* What a function handed to queueBLEOperation can do when called: throw, or
\* return a promise.
Behaviours == {"throws", "returns"}

\* What the promise of an operation can be rejected with.
Errors == {"Timeout", "Error", "Enter new PIN from device's display"}

Pending == [state |-> "pending", with |-> ""]

Fulfilled(x) == [state |-> "fulfilled", with |-> x]

Rejected(x) == [state |-> "rejected", with |-> x]

Settled(promise) == promise.state # "pending"

\* What a handler did towards the outside: the setValue call it made
\* (called), what it handed to a client's setCharacteristics (tx), the
\* properties it notified, what it rejected the promise of a setValue call
\* with or whether it fulfilled it, and the client or database call whose
\* return it handles, with the result (returned), and the device it logged
\* 'Update triggered for' (triggered).  The promise of a setValue call on a
\* BLE property is the ret of its operation.
NoOut ==
  [called |-> <<>>, tx |-> <<>>, notify |-> {}, rejected |-> "", fulfilled |-> FALSE,
   returned |-> <<>>, triggered |-> "", pin |-> ""]

VARIABLES
  ops,                  \* every operation handed to queueBLEOperation, in call order
  currentBLEOperation,  \* index in ops of the operation whose ret.catch() it is, 0 at first
  queuedOperations,     \* this.queuedOperations
  bleScanning,          \* whether this.bleDiscovery is started
  startCalls,           \* number of bleDiscovery.start(true) calls made by the queue
  bleCalls,             \* calls on GATT clients that have not returned yet
  knownDevices,         \* this.knownDevices
  db,                   \* which device IDs have pairing data stored
  dev,                  \* the HomeKitDevice objects
  value,                \* cached value of each property
  ipCalls,              \* setCharacteristics calls on the HTTP client that have not returned
  out,                  \* what the last handler transmitted, notified and returned
  ip,                   \* the HomeKitDevice of the IP accessory and its subscription attempts
  vendor,               \* the meta of a CharacteristicMapByUuid entry and the property last built from it
  bridge,               \* the HomeKitDevice objects of the bridge, and its sub-devices the gateway holds
  act,                  \* actions and action callbacks of the devices, and the actions performed
  light,                \* cached values of a colour light's properties and its writes in flight
  stores,               \* the gateway's settings and the adapter's database during migrate()
  unloaded,             \* whether unload() has been called
  enums                 \* cached values of the enum properties, their writes in flight, the last call

vars ==
  <<ops, currentBLEOperation, queuedOperations, bleScanning, startCalls,
    bleCalls, knownDevices, db, dev, value, ipCalls, out, ip, vendor, bridge,
    act, light, stores, unloaded, enums>>

OpIds == 1..Len(ops)

\* HomeKitDevice constructor, lines 76-87.  pending is the pending pairing
\* attempt (pendingPairingData and pendingPairingClient, set and cleared
\* together): the index of the operation whose startPairing made it, 0 for
\* null.
NewDevice(gsn) ==
  [phase |-> "loading", client |-> FALSE, paired |-> FALSE, pinRequired |-> FALSE,
   pending |-> 0, readPromise |-> 0, pollTimeout |-> FALSE, watching |-> FALSE,
   gsn |-> gsn, lastRead |-> FALSE, hasProps |-> FALSE, loadOp |-> 0, removeOp |-> 0]

AbsentDevice == [NewDevice(0) EXCEPT !.phase = "absent"]

\* The HomeKitDevice of the IP accessory before it is discovered.  handlers
\* counts the 'disconnect' handlers registered on its clients, connection is
\* this._connection (the attempt that made it, 0 at first), attempts are the
\* subscribeCharacteristics calls startWatching has made, timers the
\* disconnect events that have a delayed retry waiting, events the number
\* of 'disconnect' events so far.
AbsentIP ==
  [phase |-> "absent", client |-> FALSE, paired |-> FALSE, pinRequired |-> FALSE,
   watching |-> FALSE, handlers |-> 0, connection |-> 0, attempts |-> <<>>,
   timers |-> {}, events |-> 0]

\* An absent key of a meta object or of a characteristic, and a key that
\* holds x.
None == <<>>

Some(x) == <<x>>

\* The meta of the 'Duration' entry of CharacteristicMapByUuid as the file
\* declares it (title, type 'integer' and unit only), and no property built.
StaticMeta == [minimum |-> None, maximum |-> None, multipleOf |-> None, readOnly |-> None]

StaticVendor == [meta |-> StaticMeta, built |-> <<>>]

\* No HomeKitDevice of the bridge constructed, no sub-device handed to the
\* gateway.
NoBridge == [objects |-> <<>>, registered |-> {}]

\* The devices of the action specification: a lock and a thermostat of their
\* own, and a thermostat behind a bridge.
ActionDevices == {"lock1", "thermo1", "bridge1-2"}

\* No action added, no callback set and no property built on any
\* HomeKitDevice, the bridge included, and no action performed.
NoActions ==
  [actions |-> [x \in ActionDevices \cup {"bridge1"} |-> {}],
   actionCallbacks |-> [x \in ActionDevices \cup {"bridge1"} |-> {}],
   properties |-> [x \in ActionDevices \cup {"bridge1"} |-> {}],
   performed |-> <<>>]

\* The colour light before parseAccessories has built its properties: no
\* cached value yet, no write made.  calls are the setCharacteristics calls
\* that have not returned, sent the writes a colour write has issued so
\* far, acked those of them that succeeded, chains the number of colour
\* writes.
NewLight ==
  [built |-> FALSE, hue |-> 0, saturation |-> 0, brightness |-> 0, color |-> <<>>,
   calls |-> {}, sent |-> <<>>, acked |-> {}, chains |-> 0]

\* The device IDs of the migration specification.
MigratedIds == {"id1", "id2", "id3"}

\* The settings table of the gateway and the items of node-persist, both
\* empty ("" is no row and no item), before migrate() is called: rows are
\* the rows the SELECT returned, calls the call each row's chain waits for.
LegacyStores ==
  [settings |-> [id \in MigratedIds |-> ""],
   items |-> [id \in MigratedIds |-> ""],
   phase |-> "legacy",
   rows |-> [id \in MigratedIds |-> ""],
   calls |-> [id \in MigratedIds |-> "none"]]

\* The enum properties before any value is cached (this.value of a
\* property built without a value), no write in flight, nothing called.
\* last is what the last call did: the raw value and the label it was
\* about, and the error it threw ("" for none).
NewEnums ==
  [cached |-> [p \in {"Lock Target State", "Preset", "Rotation Direction"} |-> ""],
   calls |-> {},
   last |-> [prop |-> "", kind |-> "none", raw |-> 0, label |-> "", error |-> ""]]

Init ==
  /\ ops = <<>>
  /\ currentBLEOperation = 0
  /\ queuedOperations = 0
  /\ bleScanning = TRUE
  /\ startCalls = 0
  /\ bleCalls = {}
  /\ knownDevices = {}
  /\ db \in [Devices -> BOOLEAN]
  /\ dev = [d \in Devices |-> AbsentDevice]
  /\ value = [p \in Stored |-> 0]
  /\ ipCalls = {}
  /\ out = NoOut
  /\ ip = AbsentIP
  /\ vendor = StaticVendor
  /\ bridge = NoBridge
  /\ act = NoActions
  /\ light = NewLight
  /\ stores = LegacyStores
  /\ unloaded = FALSE
  /\ enums = NewEnums

(***************************************************************************)
(* HomeKitAdapter.queueBLEOperation.                                       *)
(***************************************************************************)
\* An operation as queueBLEOperation first sees it.  promise is the promise
\* op() returns, ret the promise queueBLEOperation returns; after is the
\* value of currentBLEOperation that ret was chained on.  client is the
\* client object pair() works with: the index of the operation that created
\* it, 0 before pair's function has run and in the other operations.
\* retries is the number of calls of fn() by itself that the promise of
\* addDevicesAndProperties is waiting for.
Op(kind, d, arg, val, cont) ==
  [kind |-> kind, dev |-> d, arg |-> arg, val |-> val, cont |-> cont,
   after |-> currentBLEOperation, started |-> "no", pc |-> "",
   promise |-> Pending, ret |-> Pending, client |-> 0, retries |-> 0]

\* The synchronous part: count the operation, chain ret on
\* currentBLEOperation and make ret.catch(() => {}) the new tail.
QueueBLEOperationKeepsTail(op) ==
  /\ ops' = Append(ops, op)
  /\ queuedOperations' = queuedOperations + 1
  /\ currentBLEOperation' = currentBLEOperation

QueueBLEOperation(op) ==
  /\ ops' = Append(ops, op)
  /\ queuedOperations' = queuedOperations + 1
  /\ currentBLEOperation' = Len(ops) + 1

\* this.currentBLEOperation.then(...) fires: the tail is Promise.resolve()
\* or some ret.catch(() => {}), which is fulfilled once ret is settled
\* either way.
PreviousSettledUnchained(a) == TRUE

PreviousSettledNoCatch(a) == IF a = 0 THEN TRUE ELSE ops[a].ret.state = "fulfilled"

PreviousSettled(a) == IF a = 0 THEN TRUE ELSE Settled(ops[a].ret)

\* this.bleDiscovery.stop()
ScanningKeptOnStart == bleScanning

ScanningAfterStop == FALSE

\* --this.queuedOperations === 0
DrainedAlways(n) == TRUE

Drained(n) == n - 1 = 0

\* What ret settles with: resolve.call(arguments) and reject.call(arguments)
\* pass arguments as this and no value at all.
RetAlwaysFulfilled(promise) == Fulfilled("undefined")

RetOf(promise) == [state |-> promise.state, with |-> "undefined"]

\* The client call an operation begins with.
FirstCallNoSentinel(o) ==
  CASE o.kind = "load" -> "getAccessories"
    [] o.kind = "pair" -> IF dev[o.dev].pending # 0 THEN "finishPairing" ELSE "pairSetup"
    [] o.kind = "unpair" -> "removePairing"
    [] o.kind = "read" -> "getCharacteristics"
    [] o.kind = "write" -> "setCharacteristics"
    [] o.kind = "op" -> "op"

FirstCall(o) ==
  CASE o.kind = "load" -> "getAccessories"
    [] o.kind = "pair" ->
         IF o.arg = SentinelPin THEN "startPairing"
         ELSE IF dev[o.dev].pending # 0 THEN "finishPairing" ELSE "pairSetup"
    [] o.kind = "unpair" -> "removePairing"
    [] o.kind = "read" -> "getCharacteristics"
    [] o.kind = "write" -> "setCharacteristics"
    [] o.kind = "op" -> "op"

\* The client pair() works with in operation k: the pending client when
\* there is a pending attempt and the PIN is not the sentinel, otherwise a
\* new one from getClientFromService.
PairClientAlwaysNew(o, k) == IF o.kind # "pair" THEN 0 ELSE k

PairClient(o, k) ==
  IF o.kind # "pair" THEN 0
  ELSE IF dev[o.dev].pending # 0 /\ o.arg # SentinelPin THEN dev[o.dev].pending
  ELSE k

\* op() throws instead of returning a promise: this.client is undefined in
\* the function readBLECharacteristics or setValue queued.
Throws(o) ==
  IF o.kind = "op" THEN o.arg = "throws"
  ELSE o.kind \in {"read", "write"} /\ ~dev[o.dev].client

BLECall(k, d, method) == [op |-> k, dev |-> d, method |-> method]

Transmission(p, v) == [prop |-> p, val |-> v]

\* The callback chained on currentBLEOperation: stop scanning and call op().
Start(k) ==
  /\ k \in OpIds
  /\ ops[k].started = "no"
  /\ PreviousSettled(ops[k].after)
  /\ bleScanning' = ScanningAfterStop
  /\ LET o == ops[k] IN
       IF Throws(o)
       THEN /\ ops' = [ops EXCEPT ![k].started = "threw"]
            /\ UNCHANGED bleCalls
            /\ out' = NoOut
       ELSE IF o.kind = "unpair" /\ ~dev[o.dev].client
       THEN \* the TypeError is raised inside a then() and caught
            /\ ops' = [ops EXCEPT ![k].started = "yes",
                                  ![k].promise = Fulfilled("undefined")]
            /\ UNCHANGED bleCalls
            /\ out' = NoOut
       ELSE /\ ops' = [ops EXCEPT ![k].started = "yes", ![k].pc = FirstCall(o),
                                  ![k].client = PairClient(o, k)]
            /\ bleCalls' = IF o.kind = "op" THEN bleCalls
                           ELSE bleCalls \cup {BLECall(k, o.dev, FirstCall(o))}
            /\ out' = IF o.kind = "write"
                      THEN [NoOut EXCEPT !.tx = <<Transmission(<<o.dev, o.arg>>, o.val)>>]
                      ELSE NoOut
  /\ UNCHANGED <<currentBLEOperation, queuedOperations, startCalls,
                 knownDevices, db, dev, value, ipCalls>>
  /\ UNCHANGED <<ip, vendor, bridge, act, light, stores, unloaded, enums>>

\* The callbacks on op()'s promise, lines 52-68.
Settle(k) ==
  /\ k \in OpIds
  /\ Settled(ops[k].promise)
  /\ ~Settled(ops[k].ret)
  /\ queuedOperations' = queuedOperations - 1
  /\ IF Drained(queuedOperations)
     THEN bleScanning' = TRUE /\ startCalls' = startCalls + 1
     ELSE UNCHANGED <<bleScanning, startCalls>>
  /\ ops' = [ops EXCEPT ![k].ret = RetOf(ops[k].promise)]
  /\ out' = NoOut
  /\ UNCHANGED <<currentBLEOperation, bleCalls, knownDevices, db, dev, value, ipCalls>>
  /\ UNCHANGED <<ip, vendor, bridge, act, light, stores, unloaded, enums>>

\* queueBLEOperation(op) called for a device with a function that throws or
\* returns a promise.
Enqueue(d, behaviour) ==
  /\ Len(ops) < MaxOps
  /\ QueueBLEOperation(Op("op", d, behaviour, 0, <<>>))
  /\ out' = NoOut
  /\ UNCHANGED <<bleScanning, startCalls, bleCalls, knownDevices, db, dev, value, ipCalls>>
  /\ UNCHANGED <<ip, vendor, bridge, act, light, stores, unloaded, enums>>

\* The promise op() returned is fulfilled.
OpFulfils(k) ==
  /\ k \in OpIds
  /\ ops[k].kind = "op"
  /\ ops[k].started = "yes"
  /\ ~Settled(ops[k].promise)
  /\ ops' = [ops EXCEPT ![k].pc = "", ![k].promise = Fulfilled("undefined")]
  /\ out' = NoOut
  /\ UNCHANGED <<currentBLEOperation, queuedOperations, bleScanning, startCalls,
                 bleCalls, knownDevices, db, dev, value, ipCalls>>
  /\ UNCHANGED <<ip, vendor, bridge, act, light, stores, unloaded, enums>>

\* The promise op() returned is rejected with the error e.
OpRejects(k, e) ==
  /\ k \in OpIds
  /\ ops[k].kind = "op"
  /\ ops[k].started = "yes"
  /\ ~Settled(ops[k].promise)
  /\ ops' = [ops EXCEPT ![k].pc = "", ![k].promise = Rejected(e)]
  /\ out' = NoOut
  /\ UNCHANGED <<currentBLEOperation, queuedOperations, bleScanning, startCalls,
                 bleCalls, knownDevices, db, dev, value, ipCalls>>
  /\ UNCHANGED <<ip, vendor, bridge, act, light, stores, unloaded, enums>>

(***************************************************************************)
(* The queue specification: queueBLEOperation under any calls.             *)
(***************************************************************************)
QueueNext ==
  \/ \E d \in Devices, b \in Behaviours : Enqueue(d, b)
  \/ \E k \in OpIds : Start(k)
  \/ \E k \in OpIds : OpFulfils(k)
  \/ \E k \in OpIds, e \in Errors : OpRejects(k, e)
  \/ \E k \in OpIds : Settle(k)

QueueInit == Init /\ db = [d \in Devices |-> FALSE]

QueueSpec == QueueInit /\ [][QueueNext]_vars

\* Promise callbacks always run: the callback that starts an operation and
\* the callbacks that settle ret are never postponed for ever.
FairQueueSpec ==
  /\ QueueSpec
  /\ WF_vars(\E k \in OpIds : Start(k))
  /\ WF_vars(\E k \in OpIds : Settle(k))

(***************************************************************************)
(* The operations the devices queue, from the first client call on.        *)
(***************************************************************************)
\* fromHap of a property; only the color temperature has a numeric one.
FromHap(d, v) == IF d.toHap = "mired" THEN MiredToHap(v) ELSE v

\* setCachedValue(value) followed by notifyPropertyChanged: the property
\* itself and, through postUpdate, the colour built on top of it.
Notified(p) ==
  {p} \cup (IF p[2] \in {"Hue", "Saturation", "Brightness"} /\ <<p[1], "Color">> \in Properties
            THEN {<<p[1], "Color">>} ELSE {})

\* handleCharacteristicEvent notifies every property the accessory reported;
\* the accessory reports the values the cache holds.
ReadNotified(d) ==
  IF dev[d].hasProps THEN {p \in Stored : p[1] = d} ELSE {}

\* A 'Disconnected' or 'Timeout' from a BLE getAccessories calls fn() again.
Retried(res) == res \in {"Disconnected", "Timeout"}

\* this.paired = false; this.pinRequired = true;
UnpairedKeepsPaired(D) == [D EXCEPT !.pinRequired = TRUE]

Unpaired(D) == [D EXCEPT !.paired = FALSE, !.pinRequired = TRUE]

\* The last then() of the queued read runs after the catch(), whatever
\* getCharacteristics returned, and arms the poll timer.
PollRearmedOnSuccess(res) == res = "ok"

PollRearmed(res) == TRUE

\* this.pollTimeout = setTimeout(...) of startWatching
Watching(D) == [D EXCEPT !.watching = TRUE, !.pollTimeout = TRUE]

\* A call on the GATT client returns and the operation's promise chain goes
\* on to its next call or to its end.
ClientReturn(k, res) ==
  /\ k \in OpIds
  /\ ops[k].started = "yes"
  /\ ~Settled(ops[k].promise)
  /\ BLECall(k, ops[k].dev, ops[k].pc) \in bleCalls
  /\ res \in ResultsOf(ops[k].pc)
  /\ (ops[k].pc = "getAccessories" /\ Retried(res)) => ops[k].retries < MaxRetries
  /\ LET o == ops[k]
         d == o.dev
         D == dev[d]
         done(promise) == [ops EXCEPT ![k].pc = "", ![k].promise = promise, ![k].retries = 0]
         returned == bleCalls \ {BLECall(k, d, o.pc)}
         handled == [NoOut EXCEPT !.returned = <<BLECall(k, d, o.pc), res>>]
     IN
     CASE o.pc = "getAccessories" /\ Retried(res) ->
            /\ ops' = [ops EXCEPT ![k].retries = o.retries + 1]
            /\ UNCHANGED <<bleCalls, dev, value>>
            /\ out' = handled
       [] o.pc = "getAccessories" /\ ~Retried(res) /\ o.kind = "load" ->
            /\ ops' = done(IF res = "ok" THEN Fulfilled("undefined") ELSE Rejected(res))
            /\ bleCalls' = returned
            /\ dev' = IF res = "ok" THEN [dev EXCEPT ![d].hasProps = TRUE] ELSE dev
            /\ out' = handled
            /\ UNCHANGED value
       [] o.pc = "getAccessories" /\ ~Retried(res) /\ o.kind = "pair" ->
            /\ ops' = done(IF res = "ok" THEN Fulfilled("undefined") ELSE Rejected(res))
            /\ bleCalls' = returned
            /\ dev' = [dev EXCEPT ![d] =
                 IF res # "ok" THEN Unpaired(D)
                 ELSE IF D.watching THEN [D EXCEPT !.hasProps = TRUE]
                 ELSE [Watching(D) EXCEPT !.hasProps = TRUE]]
            /\ out' = handled
            /\ UNCHANGED value
       [] o.pc = "startPairing" ->
            /\ ops' = done(IF res = "ok"
                           THEN Rejected("Enter new PIN from device's display")
                           ELSE Rejected(res))
            /\ bleCalls' = returned
            /\ dev' = IF res = "ok" THEN [dev EXCEPT ![d].pending = k] ELSE dev
            /\ out' = handled
            /\ UNCHANGED value
       [] o.pc \in {"finishPairing", "pairSetup"} ->
            /\ ops' = IF res = "ok" THEN [ops EXCEPT ![k].pc = "storePairingData"]
                      ELSE done(Rejected(res))
            /\ bleCalls' = returned
            /\ dev' = [dev EXCEPT ![d] =
                 IF res = "ok" THEN [D EXCEPT !.pending = 0] ELSE Unpaired(D)]
            /\ out' = handled
            /\ UNCHANGED value
       [] o.pc = "removePairing" ->
            /\ ops' = done(Fulfilled("undefined"))
            /\ bleCalls' = returned
            /\ out' = handled
            /\ UNCHANGED <<dev, value>>
       [] o.pc = "getCharacteristics" ->
            /\ ops' = done(Fulfilled("undefined"))
            /\ bleCalls' = returned
            /\ dev' = [dev EXCEPT ![d].readPromise = 0, ![d].lastRead = TRUE,
                                  ![d].pollTimeout = IF PollRearmed(res) THEN TRUE ELSE D.pollTimeout]
            /\ out' = IF res = "ok" THEN [handled EXCEPT !.notify = ReadNotified(d)] ELSE handled
            /\ UNCHANGED value
       [] o.pc = "setCharacteristics" ->
            /\ ops' = done(IF res = "ok" THEN Fulfilled("undefined") ELSE Rejected(res))
            /\ bleCalls' = returned
            /\ value' = IF res = "ok"
                        THEN [value EXCEPT ![<<d, o.arg>>] =
                                FromHap(PropertyDescription(o.arg), o.val)]
                        ELSE value
            /\ out' = IF res = "ok" THEN [handled EXCEPT !.notify = Notified(<<d, o.arg>>)]
                      ELSE handled
            /\ UNCHANGED dev
  /\ UNCHANGED <<currentBLEOperation, queuedOperations, bleScanning, startCalls,
                 knownDevices, db, ipCalls>>
  /\ UNCHANGED <<ip, vendor, bridge, act, light, stores, unloaded, enums>>

\* this.adapter.db.storePairingData returns inside pair(): on success the
\* device takes the client, is marked paired and lists its accessories
\* without going through the queue (SKIP_QUEUE).
StoreReturn(k, ok) ==
  /\ k \in OpIds
  /\ ops[k].started = "yes"
  /\ ops[k].pc = "storePairingData"
  /\ LET d == ops[k].dev IN
     IF ok
     THEN /\ db' = [db EXCEPT ![d] = TRUE]
          /\ dev' = [dev EXCEPT ![d].client = TRUE, ![d].paired = TRUE,
                                ![d].pinRequired = FALSE]
          /\ ops' = [ops EXCEPT ![k].pc = "getAccessories"]
          /\ bleCalls' = bleCalls \cup {BLECall(k, d, "getAccessories")}
     ELSE /\ dev' = [dev EXCEPT ![d] = Unpaired(dev[d])]
          /\ ops' = [ops EXCEPT ![k].pc = "", ![k].promise = Rejected("Error")]
          /\ UNCHANGED <<db, bleCalls>>
  /\ out' = [NoOut EXCEPT !.returned =
       <<BLECall(k, ops[k].dev, "storePairingData"), IF ok THEN "ok" ELSE "Error">>]
  /\ UNCHANGED <<currentBLEOperation, queuedOperations, bleScanning, startCalls,
                 knownDevices, value, ipCalls>>
  /\ UNCHANGED <<ip, vendor, bridge, act, light, stores, unloaded, enums>>

(***************************************************************************)
(* Discovery, loading, pairing and removal of BLE devices.                 *)
(***************************************************************************)
\* readBLECharacteristics(triggeredByEvent) on the device object D: the
\* pending read is returned, otherwise the poll timer is cleared and a read
\* is queued.
ReadBLECharacteristicsAlways(d, D, trigger) ==
  /\ Len(ops) < MaxDeviceOps
  /\ QueueBLEOperation(Op("read", d, trigger, 0, <<>>))
  /\ dev' = [dev EXCEPT ![d] =
       [D EXCEPT !.pollTimeout = FALSE, !.readPromise = Len(ops) + 1]]

ReadBLECharacteristics(d, D, trigger) ==
  IF D.readPromise # 0
  THEN /\ dev' = [dev EXCEPT ![d] = D]
       /\ UNCHANGED <<ops, queuedOperations, currentBLEOperation>>
  ELSE /\ Len(ops) < MaxDeviceOps
       /\ QueueBLEOperation(Op("read", d, trigger, 0, <<>>))
       /\ dev' = [dev EXCEPT ![d] =
            [D EXCEPT !.pollTimeout = FALSE, !.readPromise = Len(ops) + 1]]

\* const device = this.devices[...]; if (device && device.gsn !== service.GSN):
\* the device is in the devices map once handleDeviceAdded has run, and
\* until handleDeviceRemoved.
UpdateTriggeredAlways(d, gsn) == dev[d].phase = "added"

UpdateTriggered(d, gsn) == dev[d].phase = "added" /\ dev[d].gsn # gsn

\* addBLEDevice for an advertisement with CV = 2 carrying the GSN gsn.
\* A new ID is recorded and its device constructed (every accessory is
\* discovered as new once); for a device already handed to the gateway a
\* changed GSN goes to triggerBLEUpdate, which skips the read when the last
\* one completed within 500 ms (recent).
AddBLEDevice(d, gsn, recent) ==
  /\ UNCHANGED <<bleScanning, startCalls, bleCalls, db, value, ipCalls>>
  /\ \/ /\ d \notin knownDevices
        /\ dev[d].phase = "absent"
        /\ knownDevices' = knownDevices \cup {d}
        /\ dev' = [dev EXCEPT ![d] = NewDevice(gsn)]
        /\ out' = NoOut
        /\ UNCHANGED <<ops, queuedOperations, currentBLEOperation>>
     \/ /\ d \in knownDevices
        /\ UNCHANGED knownDevices
        /\ IF UpdateTriggered(d, gsn)
           THEN /\ out' = [NoOut EXCEPT !.triggered = d]
                /\ LET D == [dev[d] EXCEPT !.gsn = gsn] IN
                     IF D.lastRead /\ recent
                     THEN /\ dev' = [dev EXCEPT ![d] = D]
                          /\ UNCHANGED <<ops, queuedOperations, currentBLEOperation>>
                     ELSE ReadBLECharacteristics(d, D, "event")
           ELSE /\ out' = NoOut
                /\ UNCHANGED <<ops, queuedOperations, currentBLEOperation, dev>>
  /\ UNCHANGED <<ip, vendor, bridge, act, light, stores, unloaded, enums>>

\* The poll timer of a device expires and calls readBLECharacteristics().
PollTimer(d) ==
  /\ dev[d].pollTimeout
  /\ ReadBLECharacteristics(d, [dev[d] EXCEPT !.pollTimeout = FALSE], "poll")
  /\ out' = NoOut
  /\ UNCHANGED <<bleScanning, startCalls, bleCalls, knownDevices, db, value, ipCalls>>
  /\ UNCHANGED <<ip, vendor, bridge, act, light, stores, unloaded, enums>>

\* The constructor's callback on loadPairingData, lines 104-120 and 135-139.
LoadPairingData(d) ==
  /\ dev[d].phase = "loading"
  /\ IF db[d]
     THEN /\ Len(ops) < MaxDeviceOps
          /\ QueueBLEOperation(Op("load", d, "", 0, <<>>))
          /\ dev' = [dev EXCEPT ![d].client = TRUE, ![d].paired = TRUE,
                                ![d].pinRequired = FALSE, ![d].phase = "listing",
                                ![d].loadOp = Len(ops) + 1]
     ELSE /\ dev' = [dev EXCEPT ![d] = [Unpaired(dev[d]) EXCEPT !.phase = "added"]]
          /\ UNCHANGED <<ops, queuedOperations, currentBLEOperation>>
  /\ out' = NoOut
  /\ UNCHANGED <<bleScanning, startCalls, bleCalls, knownDevices, db, value, ipCalls>>
  /\ UNCHANGED <<ip, vendor, bridge, act, light, stores, unloaded, enums>>

\* The constructor's chain after addDevicesAndProperties, lines 121-139,
\* and handleDeviceAdded once device.promise is resolved.
ConstructorThen(d) ==
  /\ dev[d].phase = "listing"
  /\ Settled(ops[dev[d].loadOp].ret)
  /\ dev' = [dev EXCEPT ![d] =
       [(IF ops[dev[d].loadOp].ret.state = "fulfilled"
         THEN Watching(dev[d]) ELSE Unpaired(dev[d])) EXCEPT !.phase = "added"]]
  /\ out' = NoOut
  /\ UNCHANGED <<ops, queuedOperations, currentBLEOperation, bleScanning, startCalls,
                 bleCalls, knownDevices, db, value, ipCalls>>
  /\ UNCHANGED <<ip, vendor, bridge, act, light, stores, unloaded, enums>>

\* setPin(deviceId, pin) for a device that getDevice finds and that is not
\* paired, and pair(pin) of a BLE device.
SetPin(d, pin) ==
  /\ dev[d].phase = "added"
  /\ ~dev[d].paired
  /\ Len(ops) < MaxDeviceOps
  /\ QueueBLEOperation(Op("pair", d, NormalisePin(pin), 0, <<>>))
  /\ out' = [NoOut EXCEPT !.pin = pin]
  /\ UNCHANGED <<bleScanning, startCalls, bleCalls, knownDevices, db, dev, value, ipCalls>>
  /\ UNCHANGED <<ip, vendor, bridge, act, light, stores, unloaded, enums>>

\* removeThing(device) up to the promise it waits for: unpair() is queued
\* for a paired device, an unpaired one is forgotten at once.
RemoveThing(d) ==
  /\ dev[d].phase = "added"
  /\ dev[d].removeOp = 0
  /\ IF dev[d].paired
     THEN /\ Len(ops) < MaxDeviceOps
          /\ QueueBLEOperation(Op("unpair", d, "", 0, <<>>))
          /\ dev' = [dev EXCEPT ![d].removeOp = Len(ops) + 1]
          /\ UNCHANGED knownDevices
     ELSE /\ knownDevices' = knownDevices \ {d}
          /\ dev' = [dev EXCEPT ![d].phase = "removed"]
          /\ UNCHANGED <<ops, queuedOperations, currentBLEOperation>>
  /\ out' = NoOut
  /\ UNCHANGED <<bleScanning, startCalls, bleCalls, db, value, ipCalls>>
  /\ UNCHANGED <<ip, vendor, bridge, act, light, stores, unloaded, enums>>

\* device.unpair().then(...): the promise unpair() returned is fulfilled.
UnpairQueued(k) == TRUE

UnpairFinished(k) == ops[k].ret.state = "fulfilled"

\* removeThing after unpair(): the pairing data is removed from the
\* database and the device forgotten; a database failure ends the chain.
RemoveThingThen(d, dbOk) ==
  /\ dev[d].phase = "added"
  /\ dev[d].removeOp # 0
  /\ UnpairFinished(dev[d].removeOp)
  /\ IF dbOk
     THEN /\ db' = [db EXCEPT ![d] = FALSE]
          /\ knownDevices' = knownDevices \ {d}
          /\ dev' = [dev EXCEPT ![d].phase = "removed", ![d].removeOp = 0]
     ELSE /\ dev' = [dev EXCEPT ![d].removeOp = 0]
          /\ UNCHANGED <<db, knownDevices>>
  /\ out' = NoOut
  /\ UNCHANGED <<ops, queuedOperations, currentBLEOperation, bleScanning, startCalls,
                 bleCalls, value, ipCalls>>
  /\ UNCHANGED <<ip, vendor, bridge, act, light, stores, unloaded, enums>>

(***************************************************************************)
(* HomeKitProperty.setValue.                                               *)
(***************************************************************************)
\* if (this.readOnly)
NeverReadOnly(d) == FALSE

IsReadOnly(d) == d.readOnly

\* case 'ble': the write is handed to queueBLEOperation.
UsesQueueNever(p) == FALSE

UsesQueue(p) == ConnectionType(p) = "ble"

\* Whether the device of p has built its properties.
HasProperties(p) == IF p[1] = IPDevice THEN TRUE ELSE dev[p[1]].hasProps

\* setValue(value) on a numeric or read-only property.
SetValue(p, v) ==
  /\ HasProperties(p)
  /\ ~PropertyDescription(p[2]).metaProperty
  /\ LET d == PropertyDescription(p[2])
         hv == AdjustedValue(d, v)
     IN
     IF IsReadOnly(d)
     THEN /\ out' = [NoOut EXCEPT !.called = <<p, v>>, !.rejected = "Read-only property"]
          /\ UNCHANGED <<ops, queuedOperations, currentBLEOperation, bleCalls, ipCalls>>
     ELSE IF UsesQueue(p)
     THEN /\ Len(ops) < MaxDeviceOps
          /\ QueueBLEOperation(Op("write", p[1], p[2], hv, <<>>))
          /\ out' = [NoOut EXCEPT !.called = <<p, v>>]
          /\ UNCHANGED <<bleCalls, ipCalls>>
     ELSE /\ out' = [NoOut EXCEPT !.called = <<p, v>>, !.tx = <<Transmission(p, hv)>>]
          /\ IF p[1] \in Devices
             THEN bleCalls' = bleCalls \cup {BLECall(0, p[1], "setCharacteristics")}
                  /\ UNCHANGED ipCalls
             ELSE ipCalls' = ipCalls \cup {Transmission(p, hv)}
                  /\ UNCHANGED bleCalls
          /\ UNCHANGED <<ops, queuedOperations, currentBLEOperation>>
  /\ UNCHANGED <<bleScanning, startCalls, knownDevices, db, dev, value>>
  /\ UNCHANGED <<ip, vendor, bridge, act, light, stores, unloaded, enums>>

\* setValue(value) on the colour of a light: setColor starts the chain of
\* hue, saturation and brightness writes with the hue, and the colour is
\* notified at once.
SetColor(p, c) ==
  /\ HasProperties(p)
  /\ PropertyDescription(p[2]).metaProperty
  /\ Len(ops) < MaxDeviceOps
  /\ QueueBLEOperation(
       Op("write", p[1], "Hue", AdjustedValue(PropertyDescription("Hue"), c.h),
          <<<<"Saturation", c.s>>, <<"Brightness", c.v>>>>))
  /\ out' = [NoOut EXCEPT !.called = <<p, c>>, !.notify = {p}]
  /\ UNCHANGED <<bleScanning, startCalls, bleCalls, knownDevices, db, dev, value, ipCalls>>
  /\ UNCHANGED <<ip, vendor, bridge, act, light, stores, unloaded, enums>>

\* The next link of setColor's chain, once the previous write's promise is
\* fulfilled.
ColorChain(k) ==
  /\ k \in OpIds
  /\ ops[k].cont # <<>>
  /\ ops[k].ret.state = "fulfilled"
  /\ Len(ops) < MaxChainOps
  /\ LET next == Head(ops[k].cont)
         hv == AdjustedValue(PropertyDescription(next[1]), next[2])
     IN ops' = Append([ops EXCEPT ![k].cont = <<>>],
                      Op("write", ops[k].dev, next[1], hv, Tail(ops[k].cont)))
  /\ queuedOperations' = queuedOperations + 1
  /\ currentBLEOperation' = Len(ops) + 1
  /\ out' = [NoOut EXCEPT !.called = <<<<ops[k].dev, Head(ops[k].cont)[1]>>, Head(ops[k].cont)[2]>>]
  /\ UNCHANGED <<bleScanning, startCalls, bleCalls, knownDevices, db, dev, value, ipCalls>>
  /\ UNCHANGED <<ip, vendor, bridge, act, light, stores, unloaded, enums>>

\* client.setCharacteristics of the HTTP client returns.
IPReturn(c, ok) ==
  /\ c \in ipCalls
  /\ ipCalls' = ipCalls \ {c}
  /\ IF ok
     THEN /\ value' = [value EXCEPT ![c.prop] = FromHap(PropertyDescription(c.prop[2]), c.val)]
          /\ out' = [NoOut EXCEPT !.notify = Notified(c.prop), !.fulfilled = TRUE,
                                   !.returned = <<c, "ok">>]
     ELSE /\ out' = [NoOut EXCEPT !.rejected = "Error", !.returned = <<c, "Error">>]
          /\ UNCHANGED value
  /\ UNCHANGED <<ops, queuedOperations, currentBLEOperation, bleScanning, startCalls,
                 bleCalls, knownDevices, db, dev>>
  /\ UNCHANGED <<ip, vendor, bridge, act, light, stores, unloaded, enums>>

(***************************************************************************)
(* The IP accessory: discovery, loading, pairing and the subscription that *)
(* startWatching keeps.                                                    *)
(***************************************************************************)
adapterVars ==
  <<ops, currentBLEOperation, queuedOperations, bleScanning, startCalls, bleCalls,
    db, dev, value, ipCalls, out, vendor, bridge, act, light, stores, unloaded, enums>>

\* A subscribeCharacteristics call of startWatching: the disconnect event it
\* answers (0 for none), whether it is the first or the second attempt for
\* that event (0 without event), and who called startWatching.
Attempt(event, try, by) == [event |-> event, try |-> try, by |-> by, state |-> "pending"]

\* startWatching() of an IP device: this.watching = true and a
\* subscribeCharacteristics call on this.client.
StartWatching(I, event, try, by) ==
  [I EXCEPT !.watching = TRUE, !.attempts = Append(I.attempts, Attempt(event, try, by))]

\* this.client.on('disconnect', ...), next to the 'event' handler.
Registered(I) == [I EXCEPT !.handlers = I.handlers + 1]

\* addIPDevice(service) for a service with protocol version 1.x that is not
\* known yet: the ID is recorded and the device constructed.
AddIPDevice ==
  /\ IPDevice \notin knownDevices
  /\ ip.phase = "absent"
  /\ knownDevices' = knownDevices \cup {IPDevice}
  /\ ip' = [ip EXCEPT !.phase = "loading"]
  /\ UNCHANGED adapterVars

\* The constructor's callback on loadPairingData for the IP device: with
\* pairing data the client is built and getAccessories called at once.
IPLoadPairingData(stored) ==
  /\ ip.phase = "loading"
  /\ ip' = IF stored
           THEN [ip EXCEPT !.client = TRUE, !.paired = TRUE, !.pinRequired = FALSE,
                           !.phase = "listing"]
           ELSE [ip EXCEPT !.paired = FALSE, !.pinRequired = TRUE, !.phase = "added"]
  /\ UNCHANGED <<adapterVars, knownDevices>>

\* getAccessories of the constructor's chain returns: on success the event
\* and disconnect handlers are registered and startWatching is called.
IPAccessoriesReturn(ok) ==
  /\ ip.phase = "listing"
  /\ ip' = IF ok
           THEN [StartWatching(Registered(ip), 0, 0, "constructor") EXCEPT !.phase = "subscribing"]
           ELSE [ip EXCEPT !.paired = FALSE, !.pinRequired = TRUE, !.phase = "added"]
  /\ UNCHANGED <<adapterVars, knownDevices>>

\* What the rejection of a startWatching() promise leads to: the catch of
\* the constructor and of pair() mark the device unpaired, the catch of the
\* disconnect handler sets the timer of the delayed retry, and the call
\* made by that timer has no handler at all.
RetriesFailureOfAny(by) == by \in {"handler", "timer"}

RetriesFailureOf(by) == by = "handler"

\* subscribeCharacteristics returns for the attempt a.
SubscribeReturn(a, ok) ==
  /\ a \in DOMAIN ip.attempts
  /\ ip.attempts[a].state = "pending"
  /\ LET t == ip.attempts[a]
         settled == [ip EXCEPT !.attempts[a].state = IF ok THEN "ok" ELSE "failed"]
         added == IF t.by = "constructor" THEN [settled EXCEPT !.phase = "added"] ELSE settled
     IN  ip' = IF ok THEN [added EXCEPT !.connection = a]
               ELSE IF t.by \in {"constructor", "pair"}
               THEN [added EXCEPT !.paired = FALSE, !.pinRequired = TRUE]
               ELSE IF RetriesFailureOf(t.by)
               THEN [added EXCEPT !.timers = ip.timers \cup {t.event}]
               ELSE added
  /\ UNCHANGED <<adapterVars, knownDevices>>

\* setPin and pair(pin) of the unpaired IP device; pairSetup,
\* storePairingData and getAccessories are taken in one step.  After a
\* success the handlers are registered and startWatching called unless
\* this.watching is set already.
IPPair(ok) ==
  /\ ip.phase = "added"
  /\ ~ip.paired
  /\ ip' = IF ~ok THEN [ip EXCEPT !.paired = FALSE, !.pinRequired = TRUE]
           ELSE LET P == [ip EXCEPT !.client = TRUE, !.paired = TRUE, !.pinRequired = FALSE]
                IN  IF P.watching THEN P
                    ELSE StartWatching(Registered(P), 0, 0, "pair")
  /\ UNCHANGED <<adapterVars, knownDevices>>

\* A client of the device emits 'disconnect': every registered handler
\* calls startWatching() at once.
RECURSIVE HandlersRun(_, _, _)
HandlersRun(I, n, event) ==
  IF n = 0 THEN I ELSE HandlersRun(StartWatching(I, event, 1, "handler"), n - 1, event)

Disconnect ==
  /\ ip.handlers > 0
  /\ ip.events < MaxDisconnects
  /\ ip' = HandlersRun([ip EXCEPT !.events = ip.events + 1], ip.handlers, ip.events + 1)
  /\ UNCHANGED <<adapterVars, knownDevices>>

\* The 5 s timer set after the failed immediate attempt for the event
\* expires and calls startWatching().
RetryTimer(event) ==
  /\ event \in ip.timers
  /\ ip' = StartWatching([ip EXCEPT !.timers = ip.timers \ {event}], event, 2, "timer")
  /\ UNCHANGED <<adapterVars, knownDevices>>

WatchNext ==
  \/ AddIPDevice
  \/ \E stored \in BOOLEAN : IPLoadPairingData(stored)
  \/ \E ok \in BOOLEAN : IPAccessoriesReturn(ok)
  \/ \E a \in DOMAIN ip.attempts, ok \in BOOLEAN : SubscribeReturn(a, ok)
  \/ \E ok \in BOOLEAN : IPPair(ok)
  \/ Disconnect
  \/ \E event \in ip.timers : RetryTimer(event)

WatchSpec == QueueInit /\ [][WatchNext]_vars

(***************************************************************************)
(* The adapter specification.                                              *)
(***************************************************************************)
GSNs == {1, 2}

MainProperties == {p \in BLEProperties : p[2] # "Color"}

Next ==
  \/ \E d \in Devices, gsn \in GSNs, recent \in BOOLEAN : AddBLEDevice(d, gsn, recent)
  \/ \E d \in Devices : LoadPairingData(d)
  \/ \E d \in Devices : ConstructorThen(d)
  \/ \E d \in Devices, pin \in Pins : SetPin(d, pin)
  \/ \E d \in Devices : RemoveThing(d)
  \/ \E d \in Devices, dbOk \in BOOLEAN : RemoveThingThen(d, dbOk)
  \/ \E d \in Devices : PollTimer(d)
  \/ \E k \in OpIds : Start(k)
  \/ \E k \in OpIds, res \in ClientResults : ClientReturn(k, res)
  \/ \E k \in OpIds, ok \in BOOLEAN : StoreReturn(k, ok)
  \/ \E k \in OpIds : Settle(k)
  \/ \E p \in MainProperties, v \in MainRequests : SetValue(p, v)
  \/ \E p \in BLEProperties, c \in ColorInputs : SetColor(p, c)
  \/ \E k \in OpIds : ColorChain(k)

Spec == Init /\ [][Next]_vars

(***************************************************************************)
(* The setValue specification: one setValue call on a property of the IP   *)
(* accessory, for every description of the catalogue and every requested   *)
(* value, and the return of the write it makes.                            *)
(***************************************************************************)
NothingCalled == ipCalls = {} /\ out = NoOut /\ value = [p \in Stored |-> 0]

SetValueNext ==
  \/ \E p \in IPProperties, v \in ReqValues : NothingCalled /\ SetValue(p, v)
  \/ \E c \in ipCalls, ok \in BOOLEAN : IPReturn(c, ok)

SetValueSpec == QueueInit /\ [][SetValueNext]_vars

(***************************************************************************)
(* The write specification: one BLE accessory and the IP accessory, and    *)
(* setValue calls on a property of each transport.                         *)
(***************************************************************************)
WriteDevice == "ble1"

WriteProperties ==
  {<<WriteDevice, "Brightness">>, <<IPDevice, "Brightness">>, <<IPDevice, "ColorTemperature">>}

WriteNext ==
  \/ \E gsn \in GSNs, recent \in BOOLEAN : AddBLEDevice(WriteDevice, gsn, recent)
  \/ LoadPairingData(WriteDevice)
  \/ ConstructorThen(WriteDevice)
  \/ \E pin \in Pins : SetPin(WriteDevice, pin)
  \/ \E k \in OpIds : Start(k)
  \/ \E k \in OpIds, res \in ClientResults : ClientReturn(k, res)
  \/ \E k \in OpIds, ok \in BOOLEAN : StoreReturn(k, ok)
  \/ \E k \in OpIds : Settle(k)
  \/ \E p \in WriteProperties, v \in MainRequests : SetValue(p, v)
  \/ \E c \in ipCalls, ok \in BOOLEAN : IPReturn(c, ok)

WriteSpec == Init /\ [][WriteNext]_vars

(***************************************************************************)
(* Properties of the BLE queue.                                            *)
(***************************************************************************)
\* The operation has been called and the promise queueBLEOperation returned
\* for it is not settled yet.
Executing(o) == o.started = "yes" /\ ~Settled(o.ret)

\* The operation has been handed to the queue and not called yet.
Waiting(o) == o.started = "no"

\* C1: at most one operation handed to queueBLEOperation has been started
\* and is not yet settled, whatever devices the operations belong to.
C1_MutualExclusion ==
  Cardinality({k \in OpIds : Executing(ops[k])}) <= 1

\* An operation of one device is executing while an operation of the other
\* device waits behind it.
C1_Witness ==
  \E i, j \in OpIds :
    /\ i < j
    /\ Executing(ops[i])
    /\ Waiting(ops[j])
    /\ ops[i].dev # ops[j].dev

\* C2: operations start in the order of the queueBLEOperation calls, and an
\* operation has started only if the promise returned for every earlier one
\* is settled.
C2_FIFO ==
  \A i, j \in OpIds :
    (i < j /\ ~Waiting(ops[j])) => (~Waiting(ops[i]) /\ Settled(ops[i].ret))

\* Three operations were queued and all three have run to their end in turn,
\* the first of them failing.
C2_Witness ==
  /\ Len(ops) >= 3
  /\ \A k \in 1..3 : Settled(ops[k].ret)
  /\ ops[1].ret.state = "rejected"

\* C3: the promise returned for an operation is rejected only when its own
\* promise was rejected, and once the promise of an operation is rejected
\* the operation queued right after it is started.
C3_FailureIsolation ==
  /\ [](\A k \in OpIds : ops[k].ret.state = "rejected" => ops[k].promise.state = "rejected")
  /\ \A k \in 1..(MaxOps - 1) :
       ((k + 1) \in OpIds /\ ops[k].ret.state = "rejected") ~> ((k + 1) \in OpIds /\ ~Waiting(ops[k + 1]))

\* An operation was rejected and the one queued behind it was started and
\* fulfilled.
C3_Witness ==
  \E k \in OpIds :
    /\ (k + 1) \in OpIds
    /\ ops[k].ret.state = "rejected"
    /\ ops[k + 1].ret.state = "fulfilled"

\* C4, as claimed: whenever queuedOperations > 0, scanning is stopped.
C4_StoppedWhileQueued == queuedOperations > 0 => ~bleScanning

\* C4, amended: whenever an operation has been called and the promise
\* returned for it is not settled, scanning is stopped; scanning that is
\* still on while queuedOperations > 0 means that none of the counted
\* operations has been called yet and the first of them is free to start.
C4_StoppedWhileExecuting ==
  /\ \A k \in OpIds : (~Waiting(ops[k]) /\ ~Settled(ops[k].ret)) => ~bleScanning
  /\ (bleScanning /\ queuedOperations > 0) =>
       \E k \in OpIds :
         /\ Waiting(ops[k])
         /\ PreviousSettled(ops[k].after)
         /\ \A j \in OpIds : j < k => Settled(ops[j].ret)

\* An operation is executing with another one counted behind it, and
\* scanning is stopped.
C4_Witness ==
  /\ queuedOperations >= 2
  /\ ~bleScanning
  /\ \E k \in OpIds : Executing(ops[k])

\* C5: the queue calls bleDiscovery.start exactly in the steps that settle
\* the promise of an operation, by success or failure, and leave no
\* operation waiting or executing.
C5_RestartOnDrain ==
  [][LET settling == {k \in OpIds : ~Settled(ops[k].ret) /\ Settled(ops'[k].ret)}
         left == {k \in DOMAIN ops' : Waiting(ops'[k]) \/ Executing(ops'[k])}
     IN  /\ startCalls' \in {startCalls, startCalls + 1}
         /\ startCalls' = startCalls + 1 <=> (settling # {} /\ left = {})
         /\ startCalls' = startCalls + 1 => bleScanning'
    ]_vars

\* Scanning was restarted twice, the second time after a failed operation
\* that had waited behind another one.
C5_Witness ==
  /\ startCalls = 2
  /\ bleScanning
  /\ Len(ops) = 3
  /\ ops[3].ret.state = "rejected"
  /\ ops[2].ret.state = "fulfilled"

\* C6, as claimed: the promise queueBLEOperation returns settles the way the
\* operation's own promise did, with the same value or error.
C6_RetCarriesResult ==
  \A k \in OpIds : Settled(ops[k].ret) => ops[k].ret = ops[k].promise

(***************************************************************************)
(* Properties of the device operations and of setValue.                    *)
(***************************************************************************)
\* C7: every call in flight on a GATT client was issued by an operation of
\* the queue that is executing, and no other operation of the queue is
\* executing at that time.
C7_ClientCallsInsideQueue ==
  \A c \in bleCalls :
    /\ c.op \in OpIds
    /\ Executing(ops[c.op])
    /\ ~Settled(ops[c.op].promise)
    /\ \A j \in OpIds : j # c.op => ~Executing(ops[j])
    /\ \A b \in bleCalls : b = c

\* pair() lists the accessories with SKIP_QUEUE, inside its own operation,
\* while an operation queued by another code path waits.
C7_Witness ==
  \E c \in bleCalls : \E j \in OpIds :
    /\ ops[c.op].kind = "pair"
    /\ c.method = "getAccessories"
    /\ Waiting(ops[j])

\* The description of the property a setValue call was made on.
CalledDescription == PropertyDescription(out.called[1][2])

\* C8, as claimed: a value handed to setCharacteristics for a property that
\* declares a minimum and a maximum lies between the two.
C8_TransmittedWithinBounds ==
  \A i \in DOMAIN out.tx :
    LET d == PropertyDescription(out.tx[i].prop[2]) IN
      (d.hasMin /\ d.hasMax) => (d.minimum <= out.tx[i].val /\ out.tx[i].val <= d.maximum)

C10_ReadOnlyRejects ==
  [][(out'.called # <<>> /\ PropertyDescription(out'.called[1][2]).readOnly) =>
       /\ out'.rejected = "Read-only property"
       /\ out'.tx = <<>>
       /\ out'.notify = {}
       /\ UNCHANGED <<ops, queuedOperations, currentBLEOperation, bleCalls, ipCalls, value>>
    ]_vars

\* setValue was called on the read-only voltage of the BLE light while the
\* queue was busy.
C10_Witness ==
  /\ out.called # <<>>
  /\ out.called[1] = <<"ble1", "Voltage">>
  /\ out.rejected = "Read-only property"
  /\ queuedOperations > 0

(***************************************************************************)
(* Properties of writes, pairing, removal and polling.                     *)
(***************************************************************************)
\* Whether the call a handler saw return is a call of the method on a GATT
\* client (the record of a call on the HTTP client has no method).
ReturnedBLE(o, method) ==
  IF o.returned = <<>> THEN FALSE
  ELSE IF "method" \in DOMAIN o.returned[1] THEN o.returned[1].method = method
  ELSE FALSE

\* Whether the call a handler saw return is a setCharacteristics of the HTTP
\* client.
ReturnedIP(o) ==
  IF o.returned = <<>> THEN FALSE ELSE "method" \notin DOMAIN o.returned[1]

\* C11: when setCharacteristics returns for a write of setValue, on either
\* transport, a success fulfils the promise, caches the value and notifies
\* the property, and a failure rejects the promise and leaves the cache and
\* the notifications alone; the promise setValue returned is fulfilled or
\* rejected as the write was, and no cached value changes in any other step.
C11_WriteOutcome ==
  [][
      /\ ReturnedBLE(out', "setCharacteristics") =>
          LET k == out'.returned[1].op
              w == <<ops[k].dev, ops[k].arg>>
          IN  IF out'.returned[2] = "ok"
              THEN /\ ops'[k].promise.state = "fulfilled"
                   /\ value' = [value EXCEPT ![w] = FromHap(PropertyDescription(w[2]), ops[k].val)]
                   /\ w \in out'.notify
              ELSE /\ ops'[k].promise.state = "rejected"
                   /\ value' = value
                   /\ out'.notify = {}
      /\ ReturnedIP(out') =>
          LET c == out'.returned[1]
          IN  IF out'.returned[2] = "ok"
              THEN /\ out'.fulfilled /\ out'.rejected = ""
                   /\ value' = [value EXCEPT ![c.prop] = FromHap(PropertyDescription(c.prop[2]), c.val)]
                   /\ c.prop \in out'.notify
              ELSE /\ ~out'.fulfilled /\ out'.rejected # ""
                   /\ value' = value
                   /\ out'.notify = {}
      /\ \A k \in DOMAIN ops' :
           (ops'[k].kind = "write" /\ Settled(ops'[k].ret)) =>
              ops'[k].ret.state = ops'[k].promise.state
      /\ value' # value =>
           /\ ReturnedBLE(out', "setCharacteristics") \/ ReturnedIP(out')
           /\ out'.returned[2] = "ok"
    ]_vars

\* A write of the IP brightness succeeded and was cached, and the promise of
\* a setValue call on the BLE brightness is rejected after its write failed.
C11_Witness ==
  /\ value[<<IPDevice, "Brightness">>] = 100 * Scale
  /\ value[<<WriteDevice, "Brightness">>] = 0
  /\ \E k \in OpIds :
       /\ ops[k].kind = "write"
       /\ ops[k].promise.state = "rejected"
       /\ ops[k].ret.state = "rejected"

C14_PendingDiscardedOnFailure ==
  [][((ReturnedBLE(out', "finishPairing") \/ ReturnedBLE(out', "pairSetup"))
        /\ out'.returned[2] # "ok") =>
       dev'[out'.returned[1].dev].pending = 0
    ]_vars

\* C15: a device becomes paired only in the step in which storePairingData
\* returned successfully for it, or in its constructor when pairing data is
\* stored; when pairSetup, finishPairing or storePairingData fails, the
\* promise of pair's operation is rejected and the device is left unpaired
\* with pinRequired set.
C15_PairedAfterStore ==
  [][
      /\ \A d \in Devices :
           (dev'[d].paired /\ ~dev[d].paired) =>
              /\ db'[d]
              /\ \/ dev[d].phase = "loading"
                 \/ /\ ReturnedBLE(out', "storePairingData")
                    /\ out'.returned[1].dev = d
                    /\ out'.returned[2] = "ok"
                    /\ ~dev'[d].pinRequired
      /\ ((ReturnedBLE(out', "pairSetup") \/ ReturnedBLE(out', "finishPairing")
              \/ ReturnedBLE(out', "storePairingData")) /\ out'.returned[2] # "ok") =>
           LET k == out'.returned[1].op
               d == out'.returned[1].dev
           IN  /\ ops'[k].promise.state = "rejected"
               /\ ~dev'[d].paired
               /\ dev'[d].pinRequired
    ]_vars

\* A device without stored pairing data was paired: storePairingData has
\* just returned for pair's operation and the device is marked paired.
C15_Witness ==
  /\ ReturnedBLE(out, "storePairingData")
  /\ out.returned[2] = "ok"
  /\ dev[out.returned[1].dev].paired
  /\ db[out.returned[1].dev]

\* C16: the step that completes removeThing for a paired device leaves no
\* pairing data stored for it, takes its ID out of knownDevices and hands
\* the device to handleDeviceRemoved, and pairing data is deleted only once
\* the promise of the queued unpair() is settled and its removePairing call
\* has returned.
C16_RemovedAfterUnpair ==
  [][\A d \in Devices :
       /\ (dev[d].removeOp # 0 /\ dev[d].phase # "removed" /\ dev'[d].phase = "removed") =>
            /\ ~db'[d]
            /\ d \notin knownDevices'
       /\ (db[d] /\ ~db'[d]) =>
            /\ dev[d].removeOp # 0
            /\ ops[dev[d].removeOp].kind = "unpair"
            /\ Settled(ops[dev[d].removeOp].ret)
            /\ \A c \in bleCalls : c.op # dev[d].removeOp
            /\ dev'[d].phase = "removed"
    ]_vars

\* A paired device was removed after its unpair operation ran.
C16_Witness ==
  \E d \in Devices : \E k \in OpIds :
    /\ dev[d].phase = "removed"
    /\ ops[k].kind = "unpair"
    /\ ops[k].dev = d
    /\ ops[k].ret.state = "fulfilled"
    /\ ~db[d]
    /\ d \notin knownDevices

\* C20: in the step in which getCharacteristics of a queued read returns,
\* with or without an error, readPromise is cleared and the poll timer is
\* armed.
C20_PollRearmed ==
  [][ReturnedBLE(out', "getCharacteristics") =>
       LET d == out'.returned[1].dev
       IN  /\ dev'[d].readPromise = 0
           /\ dev'[d].pollTimeout
           /\ dev'[d].lastRead
    ]_vars

\* A read failed and the poll timer is armed again.
C20_Witness ==
  /\ ReturnedBLE(out, "getCharacteristics")
  /\ out.returned[2] = "Error"
  /\ dev[out.returned[1].dev].pollTimeout
  /\ dev[out.returned[1].dev].readPromise = 0

(***************************************************************************)
(* Properties of the IP subscription.                                      *)
(***************************************************************************)
\* The attempts made for a disconnect event, first and second.
AttemptsFor(event, try) ==
  {a \in DOMAIN ip.attempts : ip.attempts[a].event = event /\ ip.attempts[a].try = try}

C18_FailureSurfaced ==
  \A event \in 1..ip.events :
    ((\E f \in AttemptsFor(event, 1) : ip.attempts[f].state = "failed")
       /\ (\E a \in AttemptsFor(event, 2) : ip.attempts[a].state = "failed")) =>
      (~ip.paired \/ ip.pinRequired)

\* C19, as claimed: at most one subscription attempt of the device is in
\* progress, and none while a delayed retry is waiting.
C19_OneAttemptAtATime ==
  Cardinality({a \in DOMAIN ip.attempts : ip.attempts[a].state = "pending"})
    + Cardinality(ip.timers) <= 1

(***************************************************************************)
(* Properties of advertisements and reads.                                 *)
(***************************************************************************)
\* The step hands a read of d to queueBLEOperation.
ReadQueued(d) ==
  /\ Len(ops') = Len(ops) + 1
  /\ ops'[Len(ops')].kind = "read"
  /\ ops'[Len(ops')].dev = d

\* C21: a step in which an advertisement changes the recorded GSN of a
\* device in the devices map calls triggerBLEUpdate and queues a read
\* triggered by the event, unless a read is pending or one has completed
\* before (the 500 ms test); triggerBLEUpdate is called only in such a
\* step, and only such a step queues a read triggered by an event.
C21_GsnChangeTriggersRead ==
  [][\A d \in Devices :
       /\ (dev[d].phase = "added" /\ dev'[d].gsn # dev[d].gsn) =>
            /\ out'.triggered = d
            /\ IF dev[d].readPromise # 0
               THEN dev'[d].readPromise = dev[d].readPromise /\ ops' = ops
               ELSE \/ ReadQueued(d) /\ dev'[d].readPromise = Len(ops')
                                      /\ ops'[Len(ops')].arg = "event"
                    \/ dev[d].lastRead /\ ops' = ops /\ dev'[d].readPromise = 0
       /\ ((ReadQueued(d) /\ ops'[Len(ops')].arg = "event") \/ out'.triggered = d) =>
            (dev[d].phase = "added" /\ dev'[d].gsn # dev[d].gsn)
    ]_vars

\* The read triggered by a changed GSN waits in the queue of a device that
\* has a client.
C21_Witness ==
  /\ out.triggered \in Devices
  /\ dev[out.triggered].client
  /\ dev[out.triggered].readPromise = Len(ops)
  /\ ops[Len(ops)].arg = "event"
  /\ ops[Len(ops)].started = "no"

\* C26, as claimed: a read is handed to the queue only for a device that
\* has a client.
C26_ReadNeedsClient ==
  [][\A d \in Devices : ReadQueued(d) => dev[d].client]_vars

\* The reads of d that are queued or executing: handed to the queue, and
\* the promise of their function not settled.
PendingReads(d) ==
  {k \in OpIds : ops[k].kind = "read" /\ ops[k].dev = d /\ ~Settled(ops[k].promise)}

C22_RetriesBounded ==
  \A k \in OpIds :
    ops[k].retries = MaxRetries => BLECall(k, ops[k].dev, "getAccessories") \notin bleCalls

(***************************************************************************)
(* HomeKitDevice.addProperty, default case: a property built from an entry *)
(* of VendorExtensions.CharacteristicMapByUuid.                            *)
(***************************************************************************)
\* The characteristics of the accessories that carry the vendor type: the
\* declared format, minValue, maxValue and minStep (None when the key is
\* missing) and whether perms has 'pw' or 'tw'.
Characteristics ==
  [format : {"uint8", "int", "float"}, minValue : {None, Some(10)},
   maxValue : {None, Some(100)}, minStep : {None, Some(5)}, writable : BOOLEAN]

UnsignedFormats == {"uint8", "uint16", "uint32", "uint64"}

IntegerFormats == UnsignedFormats \cup {"int"}

FormatMinimum(format) == IF format = "int" THEN -2147483647 - 1 ELSE 0

FormatMaximum(format) ==
  CASE format = "uint8" -> 255
    [] format = "uint16" -> 65535
    [] format = "uint32" -> 2^32 - 1
    [] format = "uint64" -> 2^64 - 1
    [] format = "int" -> 2147483647

\* The assignments to meta, lines 2996-3054, as a function of the object
\* meta stands for and the characteristic.
VendorMeta(meta, c) ==
  [minimum |->
     IF c.minValue # None THEN c.minValue
     ELSE IF meta.minimum = None /\ c.format \in IntegerFormats THEN Some(FormatMinimum(c.format))
     ELSE meta.minimum,
   maximum |->
     IF c.maxValue # None THEN c.maxValue
     ELSE IF meta.maximum = None /\ c.format \in IntegerFormats THEN Some(FormatMaximum(c.format))
     ELSE meta.maximum,
   multipleOf |->
     IF meta.multipleOf # None THEN meta.multipleOf
     ELSE IF c.minStep # None THEN c.minStep
     ELSE IF c.format \in UnsignedFormats THEN Some(1)
     ELSE None,
   readOnly |-> IF ~c.writable THEN Some(TRUE) ELSE meta.readOnly]

\* const meta = c.property.meta: the object the assignments are made to is
\* the entry's own.
EntryMeta == vendor.meta

\* addProperty reaches the default case for a characteristic of the vendor
\* type: meta is filled in and the property is built with what it holds.
AddVendorProperty(c) ==
  /\ vendor' = [meta |-> VendorMeta(EntryMeta, c), built |-> <<c, VendorMeta(EntryMeta, c)>>]
  /\ UNCHANGED <<ops, currentBLEOperation, queuedOperations, bleScanning, startCalls,
                 bleCalls, knownDevices, db, dev, value, ipCalls, out, ip, bridge,
                 act, light, stores, unloaded, enums>>

CatalogNext == \E c \in Characteristics : AddVendorProperty(c)

CatalogSpec == QueueInit /\ [][CatalogNext]_vars

\* C23, as claimed: building a property leaves the entry as the file
\* declares it, and the property built for a characteristic is what the
\* declared entry and that characteristic give.
C23_CatalogStatic ==
  /\ vendor.meta = StaticMeta
  /\ vendor.built # <<>> => vendor.built[2] = VendorMeta(StaticMeta, vendor.built[1])

(***************************************************************************)
(* Progress of the queue.                                                  *)
(***************************************************************************)
\* The function of an operation has come to its end: it threw, or the
\* promise it returned is settled.
Terminated(o) == o.started = "threw" \/ Settled(o.promise)

\* C25, as claimed: an operation whose predecessors have all terminated is
\* started, the promise returned for it settles once it has terminated
\* itself, also when it or a predecessor threw, and when every operation
\* has terminated the counter returns to 0 and scanning is resumed.
C25_QueueNeverStalls ==
  /\ \A k \in 1..MaxOps :
       (k \in OpIds /\ \A j \in 1..(k - 1) : Terminated(ops[j])) ~>
         (k \in OpIds /\ ~Waiting(ops[k]))
  /\ \A k \in 1..MaxOps :
       (k \in OpIds /\ \A j \in 1..k : Terminated(ops[j])) ~>
         (k \in OpIds /\ Settled(ops[k].ret))
  /\ (Len(ops) = MaxOps /\ \A j \in OpIds : Terminated(ops[j])) ~>
       (queuedOperations = 0 /\ bleScanning)

(***************************************************************************)
(* Properties of removal.                                                  *)
(***************************************************************************)
\* C28, as claimed, for BLE: when removeThing completes for a device it
\* has unpaired, no poll timer of the device is armed and no read of it is
\* queued, so that nothing is started for it later.
C28_NothingAfterRemoval ==
  [][\A d \in Devices :
       (dev[d].removeOp # 0 /\ dev'[d].phase = "removed") =>
         (~dev'[d].pollTimeout /\ PendingReads(d) = {})
    ]_vars

(***************************************************************************)
(* A bridge: its HomeKitDevice objects, the sub-devices parseAccessories   *)
(* builds and removeThing.                                                 *)
(***************************************************************************)
BridgeDevice == "bridge1"

\* The accessories behind the bridge (aid 1 is the bridge itself).
Aids == {2, 3}

\* A key of the subDevices map, the string `${device.id}-${acc.aid}`, and
\* the sub-device object stored under it by the bridge object o.
SubDeviceId(aid) == [kind |-> "string", aid |-> aid, bridge |-> 0]

SubDevice(o, aid) == [kind |-> "object", aid |-> aid, bridge |-> o]

\* this.paired of a sub-device: the constructor returns at if (this.bridge)
\* before any assignment to it, and nothing else assigns it.
SubDevicePaired(x) == FALSE

\* removeDevice(deviceId): this.subDevices.delete(deviceId)
RemoveDevice(subDevices, deviceId) == subDevices \ {deviceId}

\* parseAccessories(accessories, true) of the object o: a sub-device per
\* accessory, stored in subDevices and handed to the gateway.
ParseAccessories(B, o) ==
  [B EXCEPT !.objects[o].subDevices = @ \cup {SubDeviceId(aid) : aid \in Aids},
            !.registered = @ \cup {SubDevice(o, aid) : aid \in Aids}]

\* addIPDevice(service) for the bridge's service record when its ID is not
\* in knownDevices: the ID is recorded and a HomeKitDevice constructed.
BridgeServiceUp ==
  /\ BridgeDevice \notin knownDevices
  /\ Len(bridge.objects) < MaxObjects
  /\ knownDevices' = knownDevices \cup {BridgeDevice}
  /\ bridge' = [bridge EXCEPT !.objects =
       Append(@, [phase |-> "loading", paired |-> FALSE, subDevices |-> {}])]
  /\ out' = NoOut
  /\ UNCHANGED <<ops, currentBLEOperation, queuedOperations, bleScanning, startCalls,
                 bleCalls, db, dev, value, ipCalls, ip, vendor,
                 act, light, stores, unloaded, enums>>

\* The constructor's chain of the object o ends: with pairing data and a
\* list of accessories (ok) the sub-devices are built, otherwise the catch
\* marks the object unpaired; handleDeviceAdded follows either way.
BridgeLoaded(o, ok) ==
  /\ o \in DOMAIN bridge.objects
  /\ bridge.objects[o].phase = "loading"
  /\ bridge' = IF ok
               THEN [ParseAccessories(bridge, o) EXCEPT !.objects[o].paired = TRUE,
                                                       !.objects[o].phase = "added"]
               ELSE [bridge EXCEPT !.objects[o].phase = "added"]
  /\ out' = NoOut
  /\ UNCHANGED <<ops, currentBLEOperation, queuedOperations, bleScanning, startCalls,
                 bleCalls, knownDevices, db, dev, value, ipCalls, ip, vendor,
                 act, light, stores, unloaded, enums>>

\* setPin and pair(pin) of the unpaired object o, taken in one step.
BridgePair(o, ok) ==
  /\ o \in DOMAIN bridge.objects
  /\ bridge.objects[o].phase = "added"
  /\ ~bridge.objects[o].paired
  /\ bridge' = IF ok THEN [ParseAccessories(bridge, o) EXCEPT !.objects[o].paired = TRUE]
               ELSE bridge
  /\ out' = NoOut
  /\ UNCHANGED <<ops, currentBLEOperation, queuedOperations, bleScanning, startCalls,
                 bleCalls, knownDevices, db, dev, value, ipCalls, ip, vendor,
                 act, light, stores, unloaded, enums>>

\* removeThing(device) for a sub-device the gateway holds:
\* device.bridge.removeDevice(device) when device.paired, then
\* knownDevices.delete(device.deviceID), the ID of the bridge, and
\* handleDeviceRemoved.
RemoveSubDevice(x) ==
  /\ x \in bridge.registered
  /\ bridge' = [bridge EXCEPT
       !.objects[x.bridge].subDevices = IF SubDevicePaired(x) THEN RemoveDevice(@, x) ELSE @,
       !.registered = @ \ {x}]
  /\ knownDevices' = knownDevices \ {BridgeDevice}
  /\ out' = NoOut
  /\ UNCHANGED <<ops, currentBLEOperation, queuedOperations, bleScanning, startCalls,
                 bleCalls, db, dev, value, ipCalls, ip, vendor,
                 act, light, stores, unloaded, enums>>

\* removeThing(device) for the object o itself: a paired one is unpaired
\* and its pairing data removed (dbOk) before the ID is forgotten.
RemoveBridge(o, dbOk) ==
  /\ o \in DOMAIN bridge.objects
  /\ bridge.objects[o].phase = "added"
  /\ IF bridge.objects[o].paired /\ ~dbOk
     THEN UNCHANGED <<bridge, knownDevices>>
     ELSE /\ bridge' = [bridge EXCEPT !.objects[o].phase = "removed"]
          /\ knownDevices' = knownDevices \ {BridgeDevice}
  /\ out' = [NoOut EXCEPT !.rejected = IF bridge.objects[o].paired /\ ~dbOk THEN "Error" ELSE ""]
  /\ UNCHANGED <<ops, currentBLEOperation, queuedOperations, bleScanning, startCalls,
                 bleCalls, db, dev, value, ipCalls, ip, vendor,
                 act, light, stores, unloaded, enums>>

\* handleCharacteristicEvent of the object o for a characteristic of the
\* accessory aid: every device in subDevices.values() that has a property
\* of that accessory caches the value and notifies.
BridgeEvent(o, aid) ==
  /\ o \in DOMAIN bridge.objects
  /\ bridge.objects[o].paired
  /\ bridge.objects[o].phase = "added"
  /\ out' = [NoOut EXCEPT !.notify =
       {SubDevice(o, k.aid) : k \in {j \in bridge.objects[o].subDevices : j.aid = aid}}]
  /\ UNCHANGED <<ops, currentBLEOperation, queuedOperations, bleScanning, startCalls,
                 bleCalls, knownDevices, db, dev, value, ipCalls, ip, vendor, bridge,
                 act, light, stores, unloaded, enums>>

BridgeNext ==
  \/ BridgeServiceUp
  \/ \E o \in DOMAIN bridge.objects, ok \in BOOLEAN : BridgeLoaded(o, ok)
  \/ \E o \in DOMAIN bridge.objects, ok \in BOOLEAN : BridgePair(o, ok)
  \/ \E x \in bridge.registered : RemoveSubDevice(x)
  \/ \E o \in DOMAIN bridge.objects, dbOk \in BOOLEAN : RemoveBridge(o, dbOk)
  \/ \E o \in DOMAIN bridge.objects, aid \in Aids : BridgeEvent(o, aid)

BridgeSpec == QueueInit /\ [][BridgeNext]_vars

\* C29, as claimed: at most one HomeKitDevice of the bridge's ID exists
\* (constructed and not removed) at any time.
C29_OneDevicePerAccessory ==
  Cardinality({o \in DOMAIN bridge.objects : bridge.objects[o].phase # "removed"}) <= 1

\* C30, as claimed: a sub-device the gateway no longer holds is not in the
\* subDevices table of its bridge, and no event notifies for it.
C30_RemovedSubDeviceForgotten ==
  /\ \A o \in DOMAIN bridge.objects : \A k \in bridge.objects[o].subDevices :
       SubDevice(o, k.aid) \in bridge.registered
  /\ \A x \in out.notify : x \in bridge.registered

\* ---------------------------------------------------------------------
\* Properties of loading
\* ---------------------------------------------------------------------

\* C31: when the constructor's chain of a top-level device ends with the
\* device presented as requiring a PIN (paired = false, pinRequired =
\* true), no pairing data is stored for its ID.
C31_UnpairedOnlyWithoutData ==
  [][\A d \in Devices :
       (dev[d].phase \in {"loading", "listing"} /\ dev'[d].phase = "added"
        /\ ~dev'[d].paired /\ dev'[d].pinRequired) => ~db[d]]_vars

\* ---------------------------------------------------------------------
\* Properties of pairing and change delivery
\* ---------------------------------------------------------------------

\* C32: when pair(pin) of the IP device succeeds, the step that makes the
\* device paired on its new client registers the 'event' and 'disconnect'
\* handlers on that client and requests a subscription on it, whatever
\* happened to the device before.
C32_PairEstablishesDelivery ==
  [][(ip.phase = "added" /\ ~ip.paired /\ ip'.paired)
       => /\ ip'.handlers = ip.handlers + 1
          /\ Len(ip'.attempts) = Len(ip.attempts) + 1
          /\ ip'.attempts[Len(ip'.attempts)].by = "pair"]_vars

(***************************************************************************)
(* The setPin specification: one BLE accessory, an ID no device has, and   *)
(* setPin calls with every spelling of the PINs.                           *)
(***************************************************************************)

\* setPin(deviceId, pin) for an ID getDevice finds no device for, or for a
\* device that is paired: the promise is rejected and nothing else is done.
SetPinRejected(id, pin) ==
  /\ dev[id].phase # "added" \/ dev[id].paired
  /\ out' = [NoOut EXCEPT !.pin = pin,
                          !.rejected = IF dev[id].phase # "added" THEN "Device not found"
                                       ELSE "Device already paired"]
  /\ UNCHANGED <<ops, queuedOperations, currentBLEOperation, bleScanning, startCalls,
                 bleCalls, knownDevices, db, dev, value, ipCalls>>
  /\ UNCHANGED <<ip, vendor, bridge, act, light, stores, unloaded, enums>>

PinNext ==
  \/ \E gsn \in GSNs, recent \in BOOLEAN : AddBLEDevice(WriteDevice, gsn, recent)
  \/ LoadPairingData(WriteDevice)
  \/ ConstructorThen(WriteDevice)
  \/ \E pin \in PinSpellings : SetPin(WriteDevice, pin)
  \/ \E id \in Devices, pin \in PinSpellings : SetPinRejected(id, pin)
  \/ \E k \in OpIds : Start(k)
  \/ \E k \in OpIds, res \in ClientResults : ClientReturn(k, res)
  \/ \E k \in OpIds, ok \in BOOLEAN : StoreReturn(k, ok)
  \/ \E k \in OpIds : Settle(k)

PinSpec == Init /\ [][PinNext]_vars

MaxActions == 2

\* addProperty(aid, service, characteristic, device) for the lock's target
\* state ('lock') or for an entry of CharacteristicMapByUuid that has an
\* action ('preset', 'resume'): the property is put in device.properties,
\* the actions are added to device, and the callback of a vendor action is
\* stored in this.actionCallbacks, where this is the HomeKitDevice whose
\* parseAccessories calls this.addProperty(..., device): for the accessories
\* behind a bridge, the bridge.
ActionAddProperty(device, c) ==
  /\ (device = "lock1") = (c = "lock")
  /\ c \notin act.properties[device]
  /\ act' = [act EXCEPT
       !.properties[device] = @ \cup {c},
       !.actions[device] = @ \cup (IF c = "lock" THEN {"unlock", "lock"} ELSE {c}),
       !.actionCallbacks[IF device = "bridge1-2" THEN "bridge1" ELSE device] =
          @ \cup (IF c = "lock" THEN {} ELSE {c})]
  /\ UNCHANGED <<ops, currentBLEOperation, queuedOperations, bleScanning, startCalls,
                 bleCalls, knownDevices, db, dev, value, ipCalls, out, ip, vendor, bridge,
                 light, stores, unloaded, enums>>

\* performAction(action): action.start(); lock and unlock call setValue on
\* the target state, any other name calls its callback when
\* this.actionCallbacks has one, which calls setValue on the property of
\* that name, and ends with status 'error' otherwise; action.finish()
\* follows the setValue call.  write is the property written ("" when the
\* loop over device.properties finds none).
PerformAction(device, name) ==
  /\ Len(act.performed) < MaxActions
  /\ act' = [act EXCEPT !.performed = Append(@,
       LET property == IF name \in {"lock", "unlock"} THEN "lock" ELSE name
           write == IF property \in act.properties[device] THEN property ELSE ""
       IN  IF name \in {"lock", "unlock"} \/ name \in act.actionCallbacks[device]
           THEN [device |-> device, name |-> name, status |-> "completed", write |-> write,
                 writeState |-> IF write = "" THEN "none" ELSE "pending"]
           ELSE [device |-> device, name |-> name, status |-> "error", write |-> "",
                 writeState |-> "none"])]
  /\ UNCHANGED <<ops, currentBLEOperation, queuedOperations, bleScanning, startCalls,
                 bleCalls, knownDevices, db, dev, value, ipCalls, out, ip, vendor, bridge,
                 light, stores, unloaded, enums>>

\* client.setCharacteristics of the write made by the i-th action returns.
ActionWriteReturn(i, ok) ==
  /\ i \in DOMAIN act.performed
  /\ act.performed[i].writeState = "pending"
  /\ act' = [act EXCEPT !.performed[i].writeState = IF ok THEN "ok" ELSE "failed"]
  /\ UNCHANGED <<ops, currentBLEOperation, queuedOperations, bleScanning, startCalls,
                 bleCalls, knownDevices, db, dev, value, ipCalls, out, ip, vendor, bridge,
                 light, stores, unloaded, enums>>

\* 'toggle' is no action of any device.
ActionNext ==
  \/ \E device \in ActionDevices, c \in {"lock", "preset", "resume"} :
        ActionAddProperty(device, c)
  \/ \E device \in ActionDevices, name \in {"lock", "unlock", "preset", "resume", "toggle"} :
        PerformAction(device, name)
  \/ \E i \in DOMAIN act.performed, ok \in BOOLEAN : ActionWriteReturn(i, ok)

ActionSpec == QueueInit /\ [][ActionNext]_vars

\* C34, as claimed: an action that is reported finished and has triggered a
\* property write has had that write succeed.
C34_FinishedAfterWrite ==
  \A i \in DOMAIN act.performed :
    (act.performed[i].status = "completed" /\ act.performed[i].write # "") =>
       act.performed[i].writeState = "ok"

\* C35, as claimed: performAction with an action the device has been given
\* by addAction never ends with status 'error'.
C35_AdvertisedActionsPerform ==
  \A i \in DOMAIN act.performed :
    act.performed[i].name \in act.actions[act.performed[i].device] =>
       act.performed[i].status # "error"

(***************************************************************************)
(* The colour specification: a light with hue, saturation and brightness   *)
(* on the IP transport, its synthetic colour property, events and writes.  *)
(***************************************************************************)
MaxColorWrites == 1

MaxLightCalls == 2

\* Util.hsvToRgb(h, s, v): the red, green and blue bytes of the hex string,
\* for h in degrees and s and v in percent.
HsvToRgb(h, s, v) ==
  LET hm == h % 60
      hi == (h \div 60) % 6
      V == MathRound(255 * v * 6000, 600000)
      P == MathRound(255 * v * (100 - s) * 60, 600000)
      Q == MathRound(255 * v * (6000 - hm * s), 600000)
      T == MathRound(255 * v * (6000 - (60 - hm) * s), 600000)
  IN  CASE hi = 0 -> <<V, T, P>>
        [] hi = 1 -> <<Q, V, P>>
        [] hi = 2 -> <<P, V, T>>
        [] hi = 3 -> <<P, Q, V>>
        [] hi = 4 -> <<T, P, V>>
        [] hi = 5 -> <<V, P, Q>>

\* setCachedValue(value) of the colour property: fromHap is getColor, which
\* takes no argument and returns Util.hsvToRgb(hueProp.value,
\* saturationProp.value, brightnessProp.value), so that is the value cached.
ColorCachedAsGiven(L, rgb) == rgb

ColorCached(L, rgb) ==
  HsvToRgb(L.hue \div Scale, L.saturation \div Scale, L.brightness \div Scale)

\* setCachedValue(value) of hue, saturation or brightness: the value is
\* stored and postUpdate caches the colour again.
LightCached(L, name, v) ==
  LET M == CASE name = "Hue" -> [L EXCEPT !.hue = v]
             [] name = "Saturation" -> [L EXCEPT !.saturation = v]
             [] name = "Brightness" -> [L EXCEPT !.brightness = v]
  IN  [M EXCEPT !.color =
         ColorCached(M, HsvToRgb(M.hue \div Scale, M.saturation \div Scale,
                                 M.brightness \div Scale))]

\* setValue(value) of hue, saturation or brightness: the adjusted value is
\* handed to client.setCharacteristics; chain and cont are the colour write
\* it belongs to (0 for none) and the writes that follow it.
LightWrite(L, name, v, chain, cont) ==
  [L EXCEPT !.calls = @ \cup {[prop |-> name, chain |-> chain, cont |-> cont,
                               val |-> AdjustedValue(PropertyDescription(name), v)]},
            !.sent = IF chain = 0 THEN @ ELSE Append(@, <<chain, name>>)]

\* parseAccessories builds the three properties with the values of the
\* accessory database and the colour property on top of them.
LightBuilt(h, s, v) ==
  /\ ~light.built
  /\ light' = LET L == [light EXCEPT !.built = TRUE, !.hue = h, !.saturation = s,
                                     !.brightness = v]
              IN  [L EXCEPT !.color = ColorCached(L, <<>>)]
  /\ UNCHANGED <<ops, currentBLEOperation, queuedOperations, bleScanning, startCalls,
                 bleCalls, knownDevices, db, dev, value, ipCalls, out, ip, vendor, bridge,
                 act, stores, unloaded, enums>>

\* handleCharacteristicEvent for one of the three characteristics, from an
\* event or from a read.
LightEvent(name, v) ==
  /\ light.built
  /\ light' = LightCached(light, name, v)
  /\ UNCHANGED <<ops, currentBLEOperation, queuedOperations, bleScanning, startCalls,
                 bleCalls, knownDevices, db, dev, value, ipCalls, out, ip, vendor, bridge,
                 act, stores, unloaded, enums>>

\* setValue(value) of the colour property: toHap is setColor, which starts
\* the chain with the hue write and returns its argument, and the
\* metaProperty branch caches the result.  c is the colour set and the hue,
\* saturation and value Util.rgbToHsv gives for it.
LightSetColor(c) ==
  /\ light.built
  /\ light.chains < MaxColorWrites
  /\ Cardinality(light.calls) < MaxLightCalls
  /\ light' = LET L == LightWrite([light EXCEPT !.chains = @ + 1], "Hue", c.h,
                                  light.chains + 1,
                                  <<<<"Saturation", c.s>>, <<"Brightness", c.v>>>>)
              IN  [L EXCEPT !.color = ColorCached(L, c.rgb)]
  /\ UNCHANGED <<ops, currentBLEOperation, queuedOperations, bleScanning, startCalls,
                 bleCalls, knownDevices, db, dev, value, ipCalls, out, ip, vendor, bridge,
                 act, stores, unloaded, enums>>

\* setValue(value) of hue, saturation or brightness by the gateway.
LightSetValue(name, v) ==
  /\ light.built
  /\ Cardinality(light.calls) < MaxLightCalls
  /\ light' = LightWrite(light, name, v, 0, <<>>)
  /\ UNCHANGED <<ops, currentBLEOperation, queuedOperations, bleScanning, startCalls,
                 bleCalls, knownDevices, db, dev, value, ipCalls, out, ip, vendor, bridge,
                 act, stores, unloaded, enums>>

\* client.setCharacteristics returns for the call c: a success caches the
\* value and, in a colour write, starts the next write of the chain; a
\* failure ends the chain.
LightWriteReturn(c, ok) ==
  /\ c \in light.calls
  /\ light' =
       LET R == [light EXCEPT !.calls = @ \ {c}]
       IN  IF ~ok THEN R
           ELSE LET C == [LightCached(R, c.prop, c.val) EXCEPT
                            !.acked = IF c.chain = 0 THEN @ ELSE @ \cup {<<c.chain, c.prop>>}]
                IN  IF c.cont = <<>> THEN C
                    ELSE LightWrite(C, Head(c.cont)[1], Head(c.cont)[2], c.chain, Tail(c.cont))
  /\ UNCHANGED <<ops, currentBLEOperation, queuedOperations, bleScanning, startCalls,
                 bleCalls, knownDevices, db, dev, value, ipCalls, out, ip, vendor, bridge,
                 act, stores, unloaded, enums>>

\* The accessory reports a hue of 0 or 120 and a saturation and brightness
\* of 50 or 100; the gateway sets red or blue.
ColorNext ==
  \/ \E h \in {0, 120 * Scale}, s \in {50 * Scale, 100 * Scale},
        v \in {50 * Scale, 100 * Scale} : LightBuilt(h, s, v)
  \/ \E name \in {"Hue", "Saturation", "Brightness"} :
        \E v \in IF name = "Hue" THEN {0, 120 * Scale} ELSE {50 * Scale, 100 * Scale} :
          LightEvent(name, v)
  \/ \E c \in {[rgb |-> <<255, 0, 0>>, h |-> 0, s |-> 100 * Scale, v |-> 100 * Scale],
               [rgb |-> <<0, 0, 255>>, h |-> 240 * Scale, s |-> 100 * Scale,
                v |-> 100 * Scale]} : LightSetColor(c)
  \/ \E name \in {"Hue", "Saturation", "Brightness"} :
        \E v \in IF name = "Hue" THEN {0, 120 * Scale} ELSE {50 * Scale, 100 * Scale} :
          LightSetValue(name, v)
  \/ \E c \in light.calls, ok \in BOOLEAN : LightWriteReturn(c, ok)

ColorSpec == QueueInit /\ [][ColorNext]_vars

\* C36: once the properties are built the cached colour is hsvToRgb of the
\* cached hue, saturation and brightness in every state; and a colour write
\* issues its hue, saturation and brightness writes in that order, the
\* saturation only after the hue write succeeded and the brightness only
\* after the saturation write succeeded.
C36_ColorFollowsHsv ==
  /\ light.built =>
       light.color = HsvToRgb(light.hue \div Scale, light.saturation \div Scale,
                              light.brightness \div Scale)
  /\ \A chain \in 1..light.chains :
       \E i \in DOMAIN light.sent : light.sent[i] = <<chain, "Hue">>
  /\ \A i \in DOMAIN light.sent :
       /\ light.sent[i][2] = "Saturation" =>
            /\ <<light.sent[i][1], "Hue">> \in light.acked
            /\ \E j \in 1..(i - 1) : light.sent[j] = <<light.sent[i][1], "Hue">>
       /\ light.sent[i][2] = "Brightness" =>
            /\ <<light.sent[i][1], "Saturation">> \in light.acked
            /\ \E j \in 1..(i - 1) : light.sent[j] = <<light.sent[i][1], "Saturation">>
  /\ Len(light.sent) <= 3 * light.chains

\* A colour write was made, its three writes have succeeded one after the
\* other, and the colour cached is the one written.
C36_Witness ==
  /\ light.built
  /\ light.chains = 1
  /\ {<<1, "Hue">>, <<1, "Saturation">>, <<1, "Brightness">>} \subseteq light.acked
  /\ light.color = <<0, 0, 255>>
  /\ light.calls = {}

(***************************************************************************)
(* The migration specification: pairing data stored in the gateway's       *)
(* settings by the earlier storePairingData, and migrate().                *)
(***************************************************************************)

\* storePairingData(id, data) of the database wrapper that kept the data in
\* the settings table: INSERT OR REPLACE of JSON.stringify(data) under
\* addons.homekit-adapter.pairing-data.<id>; data is an object with one
\* key.
StoreLegacyPairingData(id, data) ==
  /\ stores.phase = "legacy"
  /\ stores.settings[id] = ""
  /\ stores' = [stores EXCEPT !.settings[id] = "{\"AccessoryLTPK\":\"" \o data \o "\"}"]
  /\ UNCHANGED <<ops, currentBLEOperation, queuedOperations, bleScanning, startCalls,
                 bleCalls, knownDevices, db, dev, value, ipCalls, out, ip, vendor, bridge,
                 act, light, unloaded, enums>>

\* migrate() up to the callback of the SELECT: with an error the promise is
\* rejected, otherwise storage.setItem(newKey, row.value) is called for
\* every row.
Migrate(error) ==
  /\ stores.phase = "legacy"
  /\ stores' = IF error THEN [stores EXCEPT !.phase = "rejected"]
               ELSE [stores EXCEPT
                       !.phase = "migrating",
                       !.rows = stores.settings,
                       !.calls = [id \in MigratedIds |->
                                    IF stores.settings[id] = "" THEN "none" ELSE "setItem"]]
  /\ UNCHANGED <<ops, currentBLEOperation, queuedOperations, bleScanning, startCalls,
                 bleCalls, knownDevices, db, dev, value, ipCalls, out, ip, vendor, bridge,
                 act, light, unloaded, enums>>

\* Whether the then() callback that issues the DELETE runs when setItem
\* has settled.
DeleteIssuedAlways(ok) == TRUE

DeleteIssued(ok) == ok

\* storage.setItem(newKey, row.value) settles for the row of id: the item
\* is written when it succeeds.
SetItemReturn(id, ok) ==
  /\ stores.calls[id] = "setItem"
  /\ stores' = [stores EXCEPT
       !.items[id] = IF ok THEN stores.rows[id] ELSE @,
       !.calls[id] = IF DeleteIssued(ok) THEN "delete" ELSE "failed"]
  /\ UNCHANGED <<ops, currentBLEOperation, queuedOperations, bleScanning, startCalls,
                 bleCalls, knownDevices, db, dev, value, ipCalls, out, ip, vendor, bridge,
                 act, light, unloaded, enums>>

\* The callback of DELETE FROM settings WHERE key = ? for the row of id.
DeleteReturn(id, ok) ==
  /\ stores.calls[id] = "delete"
  /\ stores' = [stores EXCEPT
       !.settings[id] = IF ok THEN "" ELSE @,
       !.calls[id] = IF ok THEN "done" ELSE "failed"]
  /\ UNCHANGED <<ops, currentBLEOperation, queuedOperations, bleScanning, startCalls,
                 bleCalls, knownDevices, db, dev, value, ipCalls, out, ip, vendor, bridge,
                 act, light, unloaded, enums>>

\* Promise.all(promises).then(() => resolve()): every row's chain is
\* fulfilled.
MigrateResolved ==
  /\ stores.phase = "migrating"
  /\ \A id \in MigratedIds : stores.calls[id] \in {"none", "done"}
  /\ stores' = [stores EXCEPT !.phase = "resolved"]
  /\ UNCHANGED <<ops, currentBLEOperation, queuedOperations, bleScanning, startCalls,
                 bleCalls, knownDevices, db, dev, value, ipCalls, out, ip, vendor, bridge,
                 act, light, unloaded, enums>>

MigrationNext ==
  \/ \E id \in MigratedIds, data \in {"4c54504b31", "4c54504b32"} : StoreLegacyPairingData(id, data)
  \/ \E error \in BOOLEAN : Migrate(error)
  \/ \E id \in MigratedIds, ok \in BOOLEAN : SetItemReturn(id, ok)
  \/ \E id \in MigratedIds, ok \in BOOLEAN : DeleteReturn(id, ok)
  \/ MigrateResolved

MigrationSpec == QueueInit /\ [][MigrationNext]_vars

\* C38: in every state of a migration, for every row the SELECT returned,
\* the row is still in the settings table with its value or that value is
\* the item stored under pairing-data.<id>; a row is gone only when the
\* item is there.
C38_MigrationKeepsData ==
  \A id \in MigratedIds :
    stores.rows[id] # "" =>
      \/ stores.settings[id] = stores.rows[id]
      \/ stores.items[id] = stores.rows[id]

\* One row has been moved and deleted, and the row of another ID, whose
\* setItem failed, is still in the settings table.
C38_Witness ==
  \E id, other \in MigratedIds :
    /\ stores.rows[id] # ""
    /\ stores.settings[id] = ""
    /\ stores.items[id] = stores.rows[id]
    /\ stores.calls[other] = "failed"
    /\ stores.items[other] = ""
    /\ stores.settings[other] = stores.rows[other]
    /\ stores.rows[other] # ""

(***************************************************************************)
(* The enum specification: properties built with buildEnumGetter and       *)
(* buildEnumSetter, events with raw values and setValue calls with labels. *)
(***************************************************************************)

\* HomeKitDevice.filterEnumValues(values, characteristic) for a
\* characteristic with valid-values (valid is <<>> when it has none):
\* parseInt of every key, which here is one digit, and the entries whose
\* key is not included are deleted.
FilterEnumValues(values, valid) ==
  IF valid = <<>> THEN values
  ELSE SelectSeq(values,
         LAMBDA e : (CHOOSE k \in 0..9 : SubSeq("0123456789", k + 1, k + 1) = e[1]) \in valid[1])

\* The table the getter and the setter of a property are built with, as
\* Object.entries lists it: the lock's target state and the rotation
\* direction are filtered, the latter on an accessory whose valid-values
\* are [1]; the 'Preset' entry's table is used as written.
EnumTable(prop) ==
  CASE prop = "Lock Target State" ->
         FilterEnumValues(<<<<"0", "unlocked">>, <<"1", "locked">>>>, <<>>)
    [] prop = "Preset" -> <<<<"0", "Home">>, <<"1", "Sleep">>, <<"2", "Away">>>>
    [] prop = "Rotation Direction" ->
         FilterEnumValues(<<<<"0", "Clockwise">>, <<"1", "Counter-clockwise">>>>, <<{1}>>)

\* buildEnumGetter(values)(value): values[value] when the table has the
\* property key String(value), 'Invalid enum value' thrown otherwise.
EnumGetter(values, given) ==
  LET digit(k) == SubSeq("0123456789", k + 1, k + 1)
      natural(k) == IF k < 10 THEN digit(k) ELSE digit((k \div 10) % 10) \o digit(k % 10)
      key == IF given < 0 THEN "-" \o natural(-given) ELSE natural(given)
  IN  IF \E i \in DOMAIN values : values[i][1] = key
      THEN [raw |-> given, error |-> "",
            label |-> values[CHOOSE i \in DOMAIN values : values[i][1] = key][2]]
      ELSE [raw |-> 0, label |-> "", error |-> "Invalid enum value"]

\* buildEnumSetter(values)(value): parseInt of the key of the first entry
\* whose label is the value, 'Invalid enum value' thrown when there is
\* none.
EnumSetterByPosition(values, given) ==
  IF \E i \in DOMAIN values : values[i][2] = given
  THEN [raw |-> (CHOOSE i \in DOMAIN values : values[i][2] = given) - 1, label |-> given,
        error |-> ""]
  ELSE [raw |-> 0, label |-> "", error |-> "Invalid enum value"]

EnumSetter(values, given) ==
  LET found == {i \in DOMAIN values : values[i][2] = given}
      v == values[CHOOSE i \in found : \A j \in found : i <= j]
  IN  IF found # {}
      THEN [raw |-> CHOOSE k \in 0..9 : SubSeq("0123456789", k + 1, k + 1) = v[1],
            label |-> given, error |-> ""]
      ELSE [raw |-> 0, label |-> "", error |-> "Invalid enum value"]

\* handleCharacteristicEvent for the characteristic of an enum property:
\* setCachedValue(value) caches fromHap(value) unless fromHap throws.  The
\* 'Preset' entry's getter is () => null; the other properties use
\* buildEnumGetter.
EnumEvent(prop, raw) ==
  /\ LET r == IF prop = "Preset" THEN [raw |-> raw, label |-> "null", error |-> ""]
              ELSE EnumGetter(EnumTable(prop), raw)
     IN  enums' = [enums EXCEPT
           !.cached[prop] = IF r.error = "" THEN r.label ELSE @,
           !.last = [prop |-> prop, kind |-> "event", raw |-> raw, label |-> r.label,
                     error |-> r.error]]
  /\ UNCHANGED <<ops, currentBLEOperation, queuedOperations, bleScanning, startCalls,
                 bleCalls, knownDevices, db, dev, value, ipCalls, out, ip, vendor, bridge,
                 act, light, stores, unloaded>>

\* setValue(value) of an enum property: value = this.toHap(value), which
\* throws for a label that is not in the table, then
\* client.setCharacteristics with the raw value.
EnumSetValue(prop, label) ==
  /\ LET r == EnumSetter(EnumTable(prop), label)
     IN  enums' = [enums EXCEPT
           !.calls = IF r.error = "" THEN @ \cup {[prop |-> prop, raw |-> r.raw]} ELSE @,
           !.last = [prop |-> prop, kind |-> "setValue", raw |-> r.raw, label |-> label,
                     error |-> r.error]]
  /\ UNCHANGED <<ops, currentBLEOperation, queuedOperations, bleScanning, startCalls,
                 bleCalls, knownDevices, db, dev, value, ipCalls, out, ip, vendor, bridge,
                 act, light, stores, unloaded>>

\* client.setCharacteristics returns: a success caches the raw value
\* through fromHap.
EnumWriteReturn(c, ok) ==
  /\ c \in enums.calls
  /\ LET r == IF c.prop = "Preset" THEN [raw |-> c.raw, label |-> "null", error |-> ""]
              ELSE EnumGetter(EnumTable(c.prop), c.raw)
     IN  enums' = [enums EXCEPT
           !.calls = @ \ {c},
           !.cached[c.prop] = IF ok /\ r.error = "" THEN r.label ELSE @,
           !.last = [prop |-> c.prop, kind |-> "return", raw |-> c.raw, label |-> r.label,
                     error |-> IF ok THEN r.error ELSE "Error"]]
  /\ UNCHANGED <<ops, currentBLEOperation, queuedOperations, bleScanning, startCalls,
                 bleCalls, knownDevices, db, dev, value, ipCalls, out, ip, vendor, bridge,
                 act, light, stores, unloaded>>

\* The accessory reports raw values inside and outside the tables, and the
\* gateway sets labels inside and outside them.
EnumNext ==
  \/ \E prop \in DOMAIN enums.cached, raw \in {-1, 0, 1, 2, 3, 10} : EnumEvent(prop, raw)
  \/ \E prop \in DOMAIN enums.cached,
        label \in {"unlocked", "locked", "Home", "Away", "Clockwise", "Counter-clockwise",
                   "Party"} : EnumSetValue(prop, label)
  \/ \E c \in enums.calls, ok \in BOOLEAN : EnumWriteReturn(c, ok)

EnumSpec == QueueInit /\ [][EnumNext]_vars

\* C37: for a property built with the getter and the setter of one table,
\* a raw value of the table that an event reported is what the setter
\* returns for the label the getter gave, and a label of the table that
\* setValue was called with is what the getter returns for the raw value
\* the setter gave; a raw value or a label outside the table throws
\* 'Invalid enum value'; and no write is in flight whose raw value is not
\* a key of the property's table.
C37_EnumRoundTrip ==
  LET l == enums.last
      t == IF l.prop = "" THEN <<>> ELSE EnumTable(l.prop)
      KeysOf(values) ==
        {CHOOSE k \in 0..9 : SubSeq("0123456789", k + 1, k + 1) = values[i][1] :
           i \in DOMAIN values}
      LabelsOf(values) == {values[i][2] : i \in DOMAIN values}
  IN  /\ (l.kind = "event" /\ l.prop # "Preset") =>
            IF l.raw \in KeysOf(t)
            THEN /\ l.error = ""
                 /\ l.label \in LabelsOf(t)
                 /\ EnumSetter(t, l.label) = [raw |-> l.raw, label |-> l.label, error |-> ""]
            ELSE l.error = "Invalid enum value"
      /\ l.kind = "setValue" =>
            IF l.label \in LabelsOf(t)
            THEN /\ l.error = ""
                 /\ l.raw \in KeysOf(t)
                 /\ EnumGetter(t, l.raw) = [raw |-> l.raw, label |-> l.label, error |-> ""]
            ELSE l.error = "Invalid enum value"
      /\ \A c \in enums.calls : c.raw \in KeysOf(EnumTable(c.prop))
      /\ \A p \in DOMAIN enums.cached \ {"Preset"} :
            enums.cached[p] \in LabelsOf(EnumTable(p)) \cup {""}

\* On a property whose table was filtered to the key 1, setValue with the
\* label that was filtered out has thrown and transmitted nothing, and the
\* only write in flight is the raw value 1 of an earlier
\* setValue('Counter-clockwise').
C37_Witness ==
  /\ enums.last = [prop |-> "Rotation Direction", kind |-> "setValue", raw |-> 0,
                   label |-> "Clockwise", error |-> "Invalid enum value"]
  /\ enums.calls = {[prop |-> "Rotation Direction", raw |-> 1]}

(***************************************************************************)
(* The unload specification: the queue specification and unload().         *)
(***************************************************************************)

\* unload(): ipDiscovery.stop() and bleDiscovery.stop(); this.bleDiscovery
\* keeps its object, and the queue is left as it is.
Unload ==
  /\ ~unloaded
  /\ unloaded' = TRUE
  /\ bleScanning' = ScanningAfterStop
  /\ out' = NoOut
  /\ UNCHANGED <<ops, currentBLEOperation, queuedOperations, startCalls, bleCalls,
                 knownDevices, db, dev, value, ipCalls, ip, vendor, bridge,
                 act, light, stores, enums>>

UnloadNext ==
  \/ \E d \in Devices, b \in Behaviours : Enqueue(d, b)
  \/ \E k \in OpIds : Start(k)
  \/ \E k \in OpIds : OpFulfils(k)
  \/ \E k \in OpIds, e \in Errors : OpRejects(k, e)
  \/ \E k \in OpIds : Settle(k)
  \/ Unload

UnloadSpec == QueueInit /\ [][UnloadNext]_vars

\* C39, as claimed: once unload() has been called, bleDiscovery is not
\* started.
C39_NoScanningAfterUnload == unloaded => ~bleScanning

====
